---- MODULE Spec2Model ----
(***************************************************************************)
(* A model of the budget engine: recurrence expansion, business-day        *)
(* adjustment, the transaction pipeline, the ledger runner, the monthly    *)
(* summaries, the safe surplus calculation, the scenario overlay           *)
(* processor, the debt payoff projection and the working-model store.      *)
(*                                                                         *)
(* Dates are day numbers: day 0 is 2024-01-01 (a Monday).  ISO date        *)
(* strings of the program compare in date order, so string comparison of   *)
(* dates is integer comparison of day numbers.  Amounts are integers.      *)
(* An optional field of a JavaScript object is a sequence: << >> when the  *)
(* field is absent (undefined), <<v>> when it holds v.                     *)
(***************************************************************************)
EXTENDS Integers, Sequences, FiniteSets, TLC

VARIABLES
    baseModel,   \* overlay: the caller's base model
    scenario,    \* overlay: the scenario object (its ops list)
    applied,     \* overlay: record of the last applyScenario call
    edited,      \* overlay: record of the last call when it was addOperation
    rIn,         \* recurrence: arguments of expandRule
    rOut,        \* recurrence: << >> before the call, <<result>> after
    lIn,         \* ledger: arguments of runLedger
    lOut,        \* ledger: << >> before the call, <<result>> after
    tOut,        \* ledger: << >> or <<result of generateTransactions>>
    sIn,         \* summary: arguments of calculateSafeSurplus
    sOut,        \* summary: << >> before the call, <<result>> after
    dIn,         \* debt: arguments of projectPayoff
    dLoop,       \* debt: << >> outside the loop, <<locals of the loop>> in it
    dOut,        \* debt: << >> before the return, <<result>> after
    aIn,         \* business days: arguments of adjustTransaction
    aOut,        \* business days: << >> before the call, <<result>> after
    mOut,        \* monthly summaries: << >> before the call, <<result>> after
    wIn,         \* weekly expansion: arguments of expandWeeklyDow
    wLoop,       \* weekly expansion: locals of the loops
    wOut,        \* weekly expansion: << >> before the return, <<result>> after
    workingModel, \* working model: << >> (null) or <<the in-memory model>>
    isDirty,     \* working model: the unsaved-changes flag
    storage,     \* working model: << >> or <<the model held by the storage>>
    returned,    \* working model: the last call and what it returned
    changed      \* working model: a successful mutation happened since the
                 \* last load, discard or successful save

vars == <<baseModel, scenario, applied, edited, rIn, rOut, lIn, lOut, tOut, sIn, sOut,
          dIn, dLoop, dOut, aIn, aOut, mOut, wIn, wLoop, wOut,
          workingModel, isDirty, storage, returned, changed>>

overlayVars == <<baseModel, scenario, applied, edited>>
recurVars   == <<rIn, rOut>>
ledgerVars  == <<lIn, lOut, tOut>>
summaryVars == <<sIn, sOut>>
debtVars    == <<dIn, dLoop, dOut>>
adjustVars  == <<aIn, aOut>>
monthlyVars == <<mOut>>
weeklyVars  == <<wIn, wLoop, wOut>>
modelVars   == <<workingModel, isDirty, storage, returned, changed>>

None == << >>
Some(v) == <<v>>
IsSome(o) == o # << >>
Val(o) == o[1]

Min(a, b) == IF a <= b THEN a ELSE b
Max(a, b) == IF a >= b THEN a ELSE b
Abs(a) == IF a < 0 THEN 0 - a ELSE a

\* ---------------------------------------------------------------- bounds

\* twelve-month windows start at the first day of months 0..MaxYearStart
MaxYearStart == 3
\* short windows start on days 0..MaxStart and span up to MaxSpan days
MaxStart == 20
MaxSpan == 45

\* the largest maxMonths option a payoff projection is called with
MaxPayoffMonths == 8
\* the working model holds at most MaxAccounts accounts
MaxAccounts == 2
\* a scenario holds at most MaxOps operations
MaxOps == 3
\* object nesting followed when two effective models are compared by value
MaxDepth == 4
\* a ledger model holds at most MaxRules rules and MaxOneOffs one-offs
MaxRules == 2
MaxOneOffs == 1
\* calculateSafeSurplus is given at most MaxSummaries monthly summaries
\* iterations of one loop after which the model stops following it
MaxLoopSteps == 30

MaxSummaries == 2

\* last month index of the calendar the model covers (0 = January 2024)
MaxMonth == MaxYearStart + 12

\* -------------------------------------------------------------- calendar

IsLeap(y) == (y % 4 = 0 /\ y % 100 # 0) \/ y % 400 = 0

\* luxon DateTime.daysInMonth of month index mi (0 = January 2024)
DaysInMonth(mi) ==
    LET m == (mi % 12) + 1
        y == 2024 + (mi \div 12)
    IN  IF m = 2 THEN (IF IsLeap(y) THEN 29 ELSE 28)
        ELSE IF m \in {4, 6, 9, 11} THEN 30 ELSE 31

RECURSIVE MonthStartRec(_)
MonthStartRec(mi) ==
    IF mi = 0 THEN 0 ELSE MonthStartRec(mi - 1) + DaysInMonth(mi - 1)

MonthStartTable == [mi \in 0..(MaxMonth + 2) |-> MonthStartRec(mi)]

\* day number of the first day of month mi
MonthStart(mi) == MonthStartTable[mi]

\* month index of a day number (DateTime.startOf('month'), date.substring(0, 7))
MonthOf(d) ==
    CHOOSE mi \in 0..(MaxMonth + 1) : MonthStart(mi) <= d /\ d < MonthStart(mi + 1)

DayOfMonth(d) == d - MonthStart(MonthOf(d)) + 1

\* luxon DateTime.weekday: 1 = Monday .. 7 = Sunday
Weekday(d) == (d % 7) + 1

\* ------------------------------------------------------------ recurrence

\* dates.sort((a, b) => a < b ? -1 : 1): ascending order of dates
RECURSIVE InsertDate(_, _)
InsertDate(sorted, d) ==
    IF sorted = << >> THEN <<d>>
    ELSE IF d < Head(sorted) THEN <<d>> \o sorted
    ELSE <<Head(sorted)>> \o InsertDate(Tail(sorted), d)

RECURSIVE SortDates(_)
SortDates(ds) ==
    IF ds = << >> THEN << >>
    ELSE InsertDate(SortDates(SubSeq(ds, 1, Len(ds) - 1)), ds[Len(ds)])

\* A mutated getValidDayOfMonth: the day is not clamped to the month's length,
\* so day 31 of a shorter month rolls into the following month.
getValidDayOfMonthNoClamp(mi, day) == MonthStart(mi) + day - 1

\* getValidDayOfMonth(monthStart, day): min(day, daysInMonth) of that month
getValidDayOfMonth(mi, day) == MonthStart(mi) + Min(day, DaysInMonth(mi)) - 1

\* the while loop of expandMonthlyDay, from month mi on
RECURSIVE MonthlyLoop(_, _, _, _)
MonthlyLoop(mi, day, start, end) ==
    IF MonthStart(mi) <= end
    THEN LET targetDate == getValidDayOfMonth(mi, day)
         IN  (IF targetDate >= start /\ targetDate <= end
              THEN <<targetDate>> ELSE << >>)
             \o MonthlyLoop(mi + 1, day, start, end)
    ELSE << >>

\* recurrence.day || 1
expandMonthlyDay(recurrence, start, end) ==
    LET day == IF recurrence.day = 0 THEN 1 ELSE recurrence.day
    IN  MonthlyLoop(MonthOf(start), day, start, end)

RECURSIVE SemimonthlyLoop(_, _, _, _, _)
SemimonthlyLoop(mi, day1, day2, start, end) ==
    IF MonthStart(mi) <= end
    THEN LET date1 == getValidDayOfMonth(mi, day1)
             date2 == getValidDayOfMonth(mi, day2)
         IN  (IF date1 >= start /\ date1 <= end THEN <<date1>> ELSE << >>)
             \o (IF date2 >= start /\ date2 <= end THEN <<date2>> ELSE << >>)
             \o SemimonthlyLoop(mi + 1, day1, day2, start, end)
    ELSE << >>

\* recurrence.day1 || 1, recurrence.day2 || 15
expandSemimonthlyDays(recurrence, start, end) ==
    LET day1 == IF recurrence.day1 = 0 THEN 1 ELSE recurrence.day1
        day2 == IF recurrence.day2 = 0 THEN 15 ELSE recurrence.day2
    IN  SortDates(SemimonthlyLoop(MonthOf(start), day1, day2, start, end))

\* while (current < start) current = current.plus({ weeks: 2 })
RECURSIVE BiweeklySkip(_, _)
BiweeklySkip(current, start) ==
    IF current < start THEN BiweeklySkip(current + 14, start) ELSE current

\* while (current <= end) { dates.push(current); current += 2 weeks }
RECURSIVE BiweeklyEmit(_, _)
BiweeklyEmit(current, end) ==
    IF current <= end THEN <<current>> \o BiweeklyEmit(current + 14, end)
    ELSE << >>

expandBiweeklyAnchor(recurrence, start, end) ==
    IF ~IsSome(recurrence.anchorDate) THEN << >>
    ELSE LET anchor == Val(recurrence.anchorDate)
             daysDiff == start - anchor
             floorWeeks == daysDiff \div 14
             weeksToAdd == IF daysDiff % 14 # 0 /\ daysDiff > 0
                           THEN floorWeeks + 1 ELSE floorWeeks
             current == anchor + 14 * weeksToAdd
         IN  BiweeklyEmit(BiweeklySkip(current, start), end)

\* luxonDow = (recurrence.dayOfWeek ?? 0) + 1
LuxonDow(recurrence) ==
    (IF IsSome(recurrence.dayOfWeek) THEN Val(recurrence.dayOfWeek) ELSE 0) + 1

\* while (current.weekday !== luxonDow) never exits when no weekday matches
WeeklyDiverges(recurrence) == LuxonDow(recurrence) \notin 1..7

RECURSIVE WeeklyFirst(_, _)
WeeklyFirst(current, luxonDow) ==
    IF Weekday(current) # luxonDow THEN WeeklyFirst(current + 1, luxonDow)
    ELSE current

RECURSIVE WeeklyEmit(_, _)
WeeklyEmit(current, end) ==
    IF current <= end THEN <<current>> \o WeeklyEmit(current + 7, end)
    ELSE << >>

\* defined where the search loop terminates (~WeeklyDiverges)
expandWeeklyDow(recurrence, start, end) ==
    WeeklyEmit(WeeklyFirst(start, LuxonDow(recurrence)), end)

\* model.rules?.find(r => r.id === id): << >> or <<first rule with that id>>
RECURSIVE FindRule(_, _)
FindRule(rules, id) ==
    IF rules = << >> THEN None
    ELSE IF Head(rules).id = id THEN Some(Head(rules))
    ELSE FindRule(Tail(rules), id)

\* a resolution that walks a chain of followed rules to the first owned
\* recurrence
RECURSIVE ResolveRecurrenceTransitive(_, _)
ResolveRecurrenceTransitive(rule, model) ==
    IF IsSome(rule.followsRuleId)
    THEN LET followedRule == FindRule(model.rules, Val(rule.followsRuleId))
         IN  IF IsSome(followedRule)
             THEN IF IsSome(Val(followedRule).recurrence)
                     \/ Val(followedRule).id = rule.id
                  THEN Val(followedRule).recurrence
                  ELSE ResolveRecurrenceTransitive(Val(followedRule), model)
             ELSE rule.recurrence
    ELSE rule.recurrence

\* the recurrence expandRule resolves: the followed rule's when followsRuleId
\* names a rule of the model, else the rule's own
ResolveRecurrence(rule, model) ==
    IF IsSome(rule.followsRuleId)
    THEN LET followedRule == FindRule(model.rules, Val(rule.followsRuleId))
         IN  IF IsSome(followedRule) THEN Val(followedRule).recurrence
             ELSE rule.recurrence
    ELSE rule.recurrence

\* the window after clamping to validFrom / validTo
ClampStart(rule, startDate) ==
    IF IsSome(rule.validFrom) /\ startDate < Val(rule.validFrom)
    THEN Val(rule.validFrom) ELSE startDate

ClampEnd(rule, endDate) ==
    IF IsSome(rule.validTo) /\ endDate > Val(rule.validTo)
    THEN Val(rule.validTo) ELSE endDate

\* the switch on recurrence.type
ExpandDates(recurrence, start, end) ==
    CASE recurrence.type = "monthly_day" -> expandMonthlyDay(recurrence, start, end)
      [] recurrence.type = "semimonthly_days" -> expandSemimonthlyDays(recurrence, start, end)
      [] recurrence.type = "biweekly_anchor" -> expandBiweeklyAnchor(recurrence, start, end)
      [] recurrence.type = "weekly_dow" -> expandWeeklyDow(recurrence, start, end)
      [] OTHER -> << >>

\* one occurrence of a rule (name, category and tags are carried unchanged
\* and are left out)
Occurrence(rule, date) ==
    [date |-> date,
     ruleId |-> Some(rule.id),
     oneOffId |-> None,
     accountId |-> rule.accountId,
     kind |-> rule.kind,
     amount |-> rule.amount,
     priority |-> IF rule.priority = 0 THEN 100 ELSE rule.priority,
     businessDayAdjustment |->
         IF rule.businessDayAdjustment = "" THEN "none"
         ELSE rule.businessDayAdjustment,
     toAccountId |-> rule.toAccountId]

\* expandRule(rule, startDate, endDate, model); `!rule.enabled` is true for
\* enabled = false and for an absent enabled field
expandRule(rule, startDate, endDate, model) ==
    IF rule.enabled # Some(TRUE) THEN << >>
    ELSE LET start == ClampStart(rule, startDate)
             end == ClampEnd(rule, endDate)
             recurrence == ResolveRecurrence(rule, model)
         IN  IF start > end THEN << >>
             ELSE IF ~IsSome(recurrence) THEN << >>
             ELSE LET dates == ExpandDates(Val(recurrence), start, end)
                  IN  [i \in 1..Len(dates) |-> Occurrence(rule, dates[i])]

\* ---------------------------------------------------------- business days

\* A mutated isWeekend: only Sunday is a weekend day.
isWeekendSundayOnly(d) == Weekday(d) = 7

\* isWeekend(date): luxon weekday 6 (Saturday) or 7 (Sunday)
isWeekend(d) == Weekday(d) = 6 \/ Weekday(d) = 7

\* isBusinessDay(date, settings): settings.weekendsAreNonBusinessDays !== false
isBusinessDay(d, bdSettings) ==
    ~(bdSettings.weekendsAreNonBusinessDays # Some(FALSE) /\ isWeekend(d))

RECURSIVE WalkToBusinessDay(_, _, _)
\* while (!isBusinessDay(adjusted)) adjusted = adjusted.plus/minus({days: 1})
WalkToBusinessDay(d, step, bdSettings) ==
    IF isBusinessDay(d, bdSettings) THEN d
    ELSE WalkToBusinessDay(d + step, step, bdSettings)

\* adjustDate(date, adjustment, settings)
adjustDate(d, adjustment, bdSettings) ==
    IF adjustment = "none" \/ isBusinessDay(d, bdSettings) THEN d
    ELSE IF adjustment = "next_business_day" THEN WalkToBusinessDay(d, 1, bdSettings)
    ELSE IF adjustment = "prev_business_day" THEN WalkToBusinessDay(d, 0 - 1, bdSettings)
    ELSE d

\* settings.businessDays || {}
BusinessDaySettings(settings) ==
    IF IsSome(settings) /\ IsSome(Val(settings).businessDays)
    THEN Val(Val(settings).businessDays)
    ELSE [weekendsAreNonBusinessDays |-> None]

\* adjustTransaction(transaction, settings)
adjustTransaction(t, settings) ==
    LET adjustment == IF t.businessDayAdjustment = "" THEN "none"
                      ELSE t.businessDayAdjustment
        adjustedDate == adjustDate(t.date, adjustment, BusinessDaySettings(settings))
    IN  [date |-> adjustedDate,
         ruleId |-> t.ruleId, oneOffId |-> t.oneOffId,
         accountId |-> t.accountId, toAccountId |-> t.toAccountId,
         kind |-> t.kind, amount |-> t.amount, priority |-> t.priority,
         businessDayAdjustment |-> t.businessDayAdjustment,
         originalDate |-> Some(t.date),
         wasAdjusted |-> Some(adjustedDate # t.date)]

\* ------------------------------------------------- transaction pipeline

\* priority given to every one-off transaction
OneOffPriority == 50

\* the transaction made of a one-off (ledger.js, step 3)
OneOffTransaction(o) ==
    [date |-> o.date,
     ruleId |-> None, oneOffId |-> Some(o.id),
     accountId |-> o.accountId, toAccountId |-> None,
     kind |-> IF o.amount >= 0 THEN "income" ELSE "expense",
     amount |-> o.amount, priority |-> OneOffPriority,
     businessDayAdjustment |-> "",
     originalDate |-> None, wasAdjusted |-> None]

RECURSIVE ExpandAll(_, _, _, _)
\* for (const rule of enabledRules) transactions.push(...expandRule(rule, ...))
ExpandAll(rules, startDate, endDate, model) ==
    IF rules = << >> THEN << >>
    ELSE (IF Head(rules).enabled # Some(FALSE)
          THEN expandRule(Head(rules), startDate, endDate, model)
          ELSE << >>)
         \o ExpandAll(Tail(rules), startDate, endDate, model)

\* A mutated EmittedTransactions: one-offs are kept from startDate on,
\* whatever endDate is.
EmittedTransactionsFromStart(model, startDate, endDate) ==
    LET transactions == ExpandAll(model.rules, startDate, endDate, model)
        adjusted == [i \in 1..Len(transactions) |->
                        adjustTransaction(transactions[i], model.settings)]
        inRange(o) == o.date >= startDate
        picked == SelectSeq(model.oneOffs, inRange)
        oneOffs == [i \in 1..Len(picked) |-> OneOffTransaction(picked[i])]
    IN  adjusted \o oneOffs

\* steps 1 to 3 of generateTransactions: the adjusted rule occurrences in
\* rule-list order, then the one-offs of the window in model order
EmittedTransactions(model, startDate, endDate) ==
    LET transactions == ExpandAll(model.rules, startDate, endDate, model)
        adjusted == [i \in 1..Len(transactions) |->
                        adjustTransaction(transactions[i], model.settings)]
        inRange(o) == o.date >= startDate /\ o.date <= endDate
        picked == SelectSeq(model.oneOffs, inRange)
        oneOffs == [i \in 1..Len(picked) |-> OneOffTransaction(picked[i])]
    IN  adjusted \o oneOffs

\* A mutated kindOrder: expenses are ranked before transfers.
kindOrderExpenseFirst(kind) ==
    CASE kind = "income" -> 0
      [] kind = "expense" -> 1
      [] kind = "transfer" -> 2
      [] OTHER -> 0

\* kindOrder[kind] || 0
kindOrder(kind) ==
    CASE kind = "income" -> 0
      [] kind = "transfer" -> 1
      [] kind = "expense" -> 2
      [] OTHER -> 0

\* the comparator of the sort: negative, zero or positive
CompareTransactions(a, b) ==
    IF a.date # b.date THEN a.date - b.date
    ELSE IF a.priority # b.priority THEN a.priority - b.priority
    ELSE kindOrder(a.kind) - kindOrder(b.kind)

RECURSIVE InsertTransaction(_, _)
\* x is placed after every element that does not compare greater than it
InsertTransaction(sorted, x) ==
    IF sorted = << >> THEN <<x>>
    ELSE IF CompareTransactions(sorted[Len(sorted)], x) > 0
         THEN Append(InsertTransaction(SubSeq(sorted, 1, Len(sorted) - 1), x),
                     sorted[Len(sorted)])
         ELSE Append(sorted, x)

RECURSIVE SortFrom(_, _)
SortFrom(sorted, rest) ==
    IF rest = << >> THEN sorted
    ELSE SortFrom(InsertTransaction(sorted, Head(rest)), Tail(rest))

\* Array.prototype.sort with the comparator: a stable sort
SortTransactions(ts) == SortFrom(<< >>, ts)

\* generateTransactions(model, startDate, endDate)
generateTransactions(model, startDate, endDate) ==
    SortTransactions(EmittedTransactions(model, startDate, endDate))

\* --------------------------------------------------------- ledger runner

RECURSIVE InsertBalance(_, _)
\* sort((a, b) => b.date.localeCompare(a.date)): latest date first, stable
InsertBalance(sorted, x) ==
    IF sorted = << >> THEN <<x>>
    ELSE IF sorted[Len(sorted)].date < x.date
         THEN Append(InsertBalance(SubSeq(sorted, 1, Len(sorted) - 1), x),
                     sorted[Len(sorted)])
         ELSE Append(sorted, x)

RECURSIVE SortBalancesFrom(_, _)
SortBalancesFrom(sorted, rest) ==
    IF rest = << >> THEN sorted
    ELSE SortBalancesFrom(InsertBalance(sorted, Head(rest)), Tail(rest))

\* A mutated getStartingBalanceForAccount: entries dated after the query
\* date are kept.
getStartingBalanceAnyDate(model, accountId, date) ==
    LET keep(b) == b.accountId = accountId
        balances == SortBalancesFrom(<< >>, SelectSeq(model.startingBalances, keep))
    IN  IF Len(balances) > 0 THEN balances[1].amount ELSE 0

\* getStartingBalanceForAccount(model, accountId, date)
getStartingBalanceForAccount(model, accountId, date) ==
    LET keep(b) == b.accountId = accountId /\ b.date <= date
        balances == SortBalancesFrom(<< >>, SelectSeq(model.startingBalances, keep))
    IN  IF Len(balances) > 0 THEN balances[1].amount ELSE 0

\* getDefaultAccountId(model): the first checking account, else the first
\* account, else the literal "checking"
getDefaultAccountId(model) ==
    LET isChecking(a) == a.type = "checking"
        checking == SelectSeq(model.accounts, isChecking)
    IN  IF checking # << >> THEN checking[1].id
        ELSE IF model.accounts # << >> THEN model.accounts[1].id
        ELSE "checking"

\* settings.forecastHorizonDays || 180
DefaultHorizonDays == 180

\* the state of the ledger loop before the first transaction
LedgerStart(startingBalance, startDate) ==
    [balance |-> startingBalance,
     minBalance |-> startingBalance, maxBalance |-> startingBalance,
     minBalanceDate |-> startDate, maxBalanceDate |-> startDate,
     totalIncome |-> 0, totalExpenses |-> 0,
     totalTransfersIn |-> 0, totalTransfersOut |-> 0,
     prevDate |-> startDate,
     entries |-> <<[date |-> startDate, amount |-> startingBalance,
                    balance |-> startingBalance, kind |-> "balance",
                    isStartingBalance |-> TRUE, daysSinceLast |-> None,
                    ruleId |-> None, oneOffId |-> None,
                    accountId |-> None, toAccountId |-> None,
                    priority |-> None, originalDate |-> None]>>]

\* A mutated sign normalisation: an expense is negated without Math.abs.
SignedAmountNoAbs(tx, accountId) ==
    IF tx.kind = "transfer"
    THEN IF tx.accountId = accountId THEN 0 - Abs(tx.amount)
         ELSE IF tx.toAccountId = Some(accountId) THEN Abs(tx.amount)
         ELSE tx.amount
    ELSE IF tx.kind = "expense" THEN 0 - tx.amount
    ELSE IF tx.kind = "income" THEN Abs(tx.amount)
    ELSE tx.amount

\* the signed amount the loop applies to the balance (ledger.js 127-146)
SignedAmount(tx, accountId) ==
    IF tx.kind = "transfer"
    THEN IF tx.accountId = accountId THEN 0 - Abs(tx.amount)
         ELSE IF tx.toAccountId = Some(accountId) THEN Abs(tx.amount)
         ELSE tx.amount
    ELSE IF tx.kind = "expense" THEN 0 - Abs(tx.amount)
    ELSE IF tx.kind = "income" THEN Abs(tx.amount)
    ELSE tx.amount

\* one iteration of `for (const tx of accountTransactions)` in runLedger
LedgerStep(st, tx, accountId) ==
    LET isOut == tx.kind = "transfer" /\ tx.accountId = accountId
        isIn == tx.kind = "transfer" /\ ~isOut /\ tx.toAccountId = Some(accountId)
        amount == SignedAmount(tx, accountId)
        balance == st.balance + amount
    IN  [st EXCEPT
          !.balance = balance,
          !.totalTransfersOut = IF isOut THEN @ + Abs(amount) ELSE @,
          !.totalTransfersIn = IF isIn THEN @ + Abs(amount) ELSE @,
          !.totalExpenses = IF tx.kind = "expense" THEN @ + Abs(amount) ELSE @,
          !.totalIncome = IF tx.kind = "income" THEN @ + Abs(amount) ELSE @,
          !.minBalance = IF balance < @ THEN balance ELSE @,
          !.minBalanceDate = IF balance < st.minBalance THEN tx.date ELSE @,
          !.maxBalance = IF balance > @ THEN balance ELSE @,
          !.maxBalanceDate = IF balance > st.maxBalance THEN tx.date ELSE @,
          !.prevDate = tx.date,
          !.entries = Append(@,
              [date |-> tx.date, amount |-> amount, balance |-> balance,
               kind |-> tx.kind, isStartingBalance |-> FALSE,
               daysSinceLast |-> Some(tx.date - st.prevDate),
               ruleId |-> tx.ruleId, oneOffId |-> tx.oneOffId,
               accountId |-> Some(tx.accountId), toAccountId |-> tx.toAccountId,
               priority |-> Some(tx.priority), originalDate |-> tx.originalDate])]

RECURSIVE LedgerLoop(_, _, _)
LedgerLoop(st, txs, accountId) ==
    IF txs = << >> THEN st
    ELSE LedgerLoop(LedgerStep(st, Head(txs), accountId), Tail(txs), accountId)

\* runLedger(model, options); today is DateTime.now().toISODate()
runLedger(model, options, today) ==
    LET configured == IF IsSome(model.settings)
                      THEN Val(model.settings).forecastHorizonDays ELSE 0
        horizonDays == IF configured = 0 THEN DefaultHorizonDays ELSE configured
        startDate == IF IsSome(options.startDate) THEN Val(options.startDate) ELSE today
        endDate == IF IsSome(options.endDate) THEN Val(options.endDate)
                   ELSE today + horizonDays
        accountId == IF IsSome(options.accountId) THEN Val(options.accountId)
                     ELSE getDefaultAccountId(model)
        startingBalance == getStartingBalanceForAccount(model, accountId, startDate)
        transactions == generateTransactions(model, startDate, endDate)
        touches(t) == t.accountId = accountId \/ t.toAccountId = Some(accountId)
        accountTransactions == SelectSeq(transactions, touches)
        final == LedgerLoop(LedgerStart(startingBalance, startDate),
                            accountTransactions, accountId)
    IN  [accountId |-> accountId, startDate |-> startDate, endDate |-> endDate,
         startingBalance |-> startingBalance,
         entries |-> final.entries,
         summary |-> [endBalance |-> final.balance,
                      minBalance |-> final.minBalance,
                      maxBalance |-> final.maxBalance,
                      minBalanceDate |-> final.minBalanceDate,
                      maxBalanceDate |-> final.maxBalanceDate,
                      totalIncome |-> final.totalIncome,
                      totalExpenses |-> final.totalExpenses,
                      totalTransfersIn |-> final.totalTransfersIn,
                      totalTransfersOut |-> final.totalTransfersOut,
                      netSurplus |-> final.totalIncome - final.totalExpenses,
                      transactionCount |-> Len(final.entries) - 1]]

\* ---------------------------------------------------- monthly summaries

RECURSIVE MonthKeys(_)
\* Object.keys(groupByMonth(entries)).sort(): the months that hold an entry,
\* ascending, each once
MonthKeys(entries) ==
    IF entries = << >> THEN << >>
    ELSE LET rest == MonthKeys(Tail(entries))
             month == MonthOf(Head(entries).date)
         IN  IF \E i \in 1..Len(rest) : rest[i] = month THEN rest
             ELSE SortDates(<<month>> \o rest)

\* groupByMonth(entries)[month]: the entries of the month in ledger order
groupByMonth(entries, month) ==
    LET inMonth(e) == MonthOf(e.date) = month
    IN  SelectSeq(entries, inMonth)

\* the locals of the month loop before the first entry; minBalance << >> is
\* Infinity and maxBalance << >> is -Infinity
MonthStartLocals(prevEndBalance) ==
    [income |-> 0, expenses |-> 0, transfersIn |-> 0, transfersOut |-> 0,
     minBalance |-> None, maxBalance |-> None,
     minBalanceDate |-> None, maxBalanceDate |-> None,
     endBalance |-> prevEndBalance]

\* one iteration of `for (const entry of monthEntries)`
MonthEntryStep(st, entry) ==
    IF entry.isStartingBalance THEN st
    ELSE [st EXCEPT
           !.income = IF entry.kind = "income" THEN @ + entry.amount ELSE @,
           !.expenses = IF entry.kind = "expense" THEN @ + Abs(entry.amount) ELSE @,
           !.transfersIn = IF entry.kind = "transfer" /\ entry.amount > 0
                           THEN @ + entry.amount ELSE @,
           !.transfersOut = IF entry.kind = "transfer" /\ ~(entry.amount > 0)
                            THEN @ + Abs(entry.amount) ELSE @,
           !.endBalance = entry.balance,
           !.minBalance = IF @ = None \/ entry.balance < Val(@)
                          THEN Some(entry.balance) ELSE @,
           !.minBalanceDate = IF st.minBalance = None
                                 \/ entry.balance < Val(st.minBalance)
                              THEN Some(entry.date) ELSE @,
           !.maxBalance = IF @ = None \/ entry.balance > Val(@)
                          THEN Some(entry.balance) ELSE @,
           !.maxBalanceDate = IF st.maxBalance = None
                                 \/ entry.balance > Val(st.maxBalance)
                              THEN Some(entry.date) ELSE @]

RECURSIVE MonthEntryLoop(_, _)
MonthEntryLoop(st, monthEntries) ==
    IF monthEntries = << >> THEN st
    ELSE MonthEntryLoop(MonthEntryStep(st, Head(monthEntries)), Tail(monthEntries))

\* the summary pushed for one month
MonthSummary(month, monthEntries, prevEndBalance) ==
    LET st == MonthEntryLoop(MonthStartLocals(prevEndBalance), monthEntries)
        real(e) == ~e.isStartingBalance
    IN  [month |-> month,
         startBalance |-> prevEndBalance,
         endBalance |-> st.endBalance,
         income |-> st.income, expenses |-> st.expenses,
         transfersIn |-> st.transfersIn, transfersOut |-> st.transfersOut,
         netSurplus |-> st.income - st.expenses,
         minBalance |-> IF st.minBalance = None THEN prevEndBalance
                        ELSE Val(st.minBalance),
         maxBalance |-> IF st.minBalance = None THEN prevEndBalance
                        ELSE Val(st.maxBalance),
         minBalanceDate |-> st.minBalanceDate,
         maxBalanceDate |-> st.maxBalanceDate,
         transactionCount |-> Len(SelectSeq(monthEntries, real))]

RECURSIVE SummariesNoCarry(_, _, _)
\* A mutated month loop: every month starts from the first start balance.
SummariesNoCarry(months, entries, prevEndBalance) ==
    IF months = << >> THEN << >>
    ELSE <<MonthSummary(Head(months), groupByMonth(entries, Head(months)),
                        prevEndBalance)>>
         \o SummariesNoCarry(Tail(months), entries, prevEndBalance)

RECURSIVE SummariesFrom(_, _, _)
\* `for (const month of months)` with prevEndBalance carried forward
SummariesFrom(months, entries, prevEndBalance) ==
    IF months = << >> THEN << >>
    ELSE LET summary == MonthSummary(Head(months),
                                     groupByMonth(entries, Head(months)),
                                     prevEndBalance)
         IN  <<summary>> \o SummariesFrom(Tail(months), entries, summary.endBalance)

\* calculateMonthlySummaries(ledgerResult)
calculateMonthlySummaries(ledgerResult) ==
    SummariesFrom(MonthKeys(ledgerResult.entries), ledgerResult.entries,
                  ledgerResult.startingBalance)

\* ------------------------------------------------------ scenario overlay

\* JavaScript values of the settings tree: a number, an object (a function
\* from its keys to values), or a reference to the object that is the value
\* of operation i of the scenario (settings_set stores op.value itself, not a
\* copy, so the model and the scenario then share that object)
Num(n) == [t |-> "num", n |-> n]
Obj(f) == [t |-> "obj", f |-> f]
Ref(i) == [t |-> "ref", i |-> i]
EmptyObj == Obj(<< >>)

\* !value is false
Truthy(v) == v.t # "num" \/ v.n # 0

RECURSIVE GetIn(_, _)
\* the object reached from object v along the keys of path
GetIn(v, path) ==
    IF path = << >> THEN v ELSE GetIn(v.f[Head(path)], Tail(path))

RECURSIVE PutIn(_, _, _, _)
\* object v with the field key of the object at path set to x
PutIn(v, path, key, x) ==
    IF path = << >> THEN Obj((key :> x) @@ v.f)
    ELSE Obj((Head(path) :> PutIn(v.f[Head(path)], Tail(path), key, x)) @@ v.f)

\* A location names an object of the heap: root 0 is model.settings, root i > 0
\* is the value object of operation i; path leads from the root to the object.
ReadLoc(w, loc) ==
    GetIn(IF loc.root = 0 THEN Val(w.model.settings) ELSE Val(w.ops[loc.root].value),
          loc.path)

\* target[key] = x for the object at loc
WriteLoc(w, loc, key, x) ==
    IF loc.root = 0
    THEN [w EXCEPT !.model.settings = Some(PutIn(Val(@), loc.path, key, x))]
    ELSE [w EXCEPT !.ops[loc.root].value = Some(PutIn(Val(@), loc.path, key, x))]

\* cloneModel(model): JSON.parse(JSON.stringify(model)) is a new object equal
\* in value; sameObject tells whether the result is the argument itself
cloneModelAlias(model) == [model |-> model, sameObject |-> TRUE]

cloneModel(model) == [model |-> model, sameObject |-> FALSE]

\* index of the first rule with the given id, 0 when there is none
RECURSIVE RuleIndexFrom(_, _, _)
RuleIndexFrom(rules, id, i) ==
    IF i > Len(rules) THEN 0
    ELSE IF rules[i].id = id THEN i
    ELSE RuleIndexFrom(rules, id, i + 1)

RuleIndex(model, id) == RuleIndexFrom(model.rules, id, 1)

\* applyRuleAmountSet(model, op)
applyRuleAmountSet(w, op) ==
    LET i == RuleIndex(w.model, op.ruleId)
    IN  IF i # 0 /\ IsSome(op.amount)
        THEN [w EXCEPT !.model.rules[i].amount = Val(op.amount)]
        ELSE w

\* A mutated applyRuleAmountDelta: the delta replaces the amount.
applyRuleAmountDeltaAssign(w, op) ==
    LET i == RuleIndex(w.model, op.ruleId)
    IN  IF i # 0 /\ IsSome(op.delta)
        THEN [w EXCEPT !.model.rules[i].amount = Val(op.delta)]
        ELSE w

\* applyRuleAmountDelta(model, op): rule.amount = (rule.amount || 0) + op.delta
applyRuleAmountDelta(w, op) ==
    LET i == RuleIndex(w.model, op.ruleId)
    IN  IF i # 0 /\ IsSome(op.delta)
        THEN [w EXCEPT !.model.rules[i].amount = @ + Val(op.delta)]
        ELSE w

\* A mutated applyRuleDisable: the operation toggles the flag.
applyRuleDisableToggle(w, op) ==
    LET i == RuleIndex(w.model, op.ruleId)
    IN  IF i # 0
        THEN [w EXCEPT !.model.rules[i].enabled = Some(@ # Some(TRUE))]
        ELSE w

\* applyRuleDisable(model, op): rule.enabled = !op.disabled
applyRuleDisable(w, op) ==
    LET i == RuleIndex(w.model, op.ruleId)
    IN  IF i # 0
        THEN [w EXCEPT !.model.rules[i].enabled = Some(~op.disabled)]
        ELSE w

\* applyRuleRecurrenceSet(model, op)
applyRuleRecurrenceSet(w, op) ==
    LET i == RuleIndex(w.model, op.ruleId)
    IN  IF i # 0 /\ IsSome(op.recurrence)
        THEN [w EXCEPT !.model.rules[i].recurrence = op.recurrence,
                       !.model.rules[i].followsRuleId = None]
        ELSE w

\* applyAddOneOff(model, op), for operations that carry their oneOffId as
\* createOp.addOneOff builds them
applyAddOneOff(w, op) ==
    LET oneOffs == IF IsSome(w.model.oneOffs) THEN Val(w.model.oneOffs) ELSE << >>
        oneOff == [id |-> op.oneOffId, date |-> op.date,
                   accountId |-> IF op.accountId = "" THEN "checking" ELSE op.accountId,
                   amount |-> op.amount, tags |-> <<"scenario">>]
    IN  [w EXCEPT !.model.oneOffs = Some(Append(oneOffs, oneOff))]

\* applyRemoveOneOff(model, op)
applyRemoveOneOff(w, op) ==
    LET keep(o) == o.id # op.oneOffId
    IN  IF IsSome(w.model.oneOffs) /\ op.oneOffId # ""
        THEN [w EXCEPT !.model.oneOffs = Some(SelectSeq(Val(@), keep))]
        ELSE w

\* the target of applySettingsSet: "undefined", a primitive number, or the
\* object at a location
RECURSIVE SettingsWalk(_, _, _)
\* for (const key of keys) { if (!target[key]) target[key] = {}; target = target[key]; }
\* Reading a property of undefined throws; creating a property on a number
\* throws in strict mode.  The result is the state and the final target.
SettingsWalk(w, target, keys) ==
    IF keys = << >> \/ w.threw THEN [w |-> w, target |-> target]
    ELSE IF target.kind # "loc"
         THEN [w |-> [w EXCEPT !.threw = TRUE], target |-> target]
    ELSE LET key == Head(keys)
             obj == ReadLoc(w, target.loc)
             present == key \in DOMAIN obj.f /\ Truthy(obj.f[key])
             created == IF present THEN w ELSE WriteLoc(w, target.loc, key, EmptyObj)
             child == IF present THEN obj.f[key] ELSE EmptyObj
             next == IF child.t = "num" THEN [kind |-> "prim"]
                     ELSE IF child.t = "ref"
                     THEN [kind |-> "loc", loc |-> [root |-> child.i, path |-> << >>]]
                     ELSE [kind |-> "loc",
                           loc |-> [root |-> target.loc.root,
                                    path |-> Append(target.loc.path, key)]]
         IN  SettingsWalk(created, next, Tail(keys))

\* applySettingsSet(model, op) for operation i of the scenario; the path is
\* the sequence of its dot-separated keys, << >> for an empty path
applySettingsSet(w, i) ==
    LET op == w.ops[i]
    IN  IF op.path = << >> \/ ~IsSome(op.value) THEN w
        ELSE LET keys == SubSeq(op.path, 1, Len(op.path) - 1)
                 lastKey == op.path[Len(op.path)]
                 start == IF IsSome(w.model.settings)
                          THEN [kind |-> "loc", loc |-> [root |-> 0, path |-> << >>]]
                          ELSE [kind |-> "undefined"]
                 walked == SettingsWalk(w, start, keys)
                 stored == IF Val(op.value).t = "obj" THEN Ref(i) ELSE Val(op.value)
             IN  IF walked.w.threw THEN walked.w
                 ELSE IF walked.target.kind # "loc"
                 THEN [walked.w EXCEPT !.threw = TRUE]
                 ELSE WriteLoc(walked.w, walked.target.loc, lastKey, stored)

\* applyOperation(model, op) for operation i of the scenario
applyOperation(w, i) ==
    LET op == w.ops[i]
    IN  CASE op.op = "rule_amount_set" -> applyRuleAmountSet(w, op)
          [] op.op = "rule_amount_delta" -> applyRuleAmountDelta(w, op)
          [] op.op = "rule_disable" -> applyRuleDisable(w, op)
          [] op.op = "rule_recurrence_set" -> applyRuleRecurrenceSet(w, op)
          [] op.op = "add_oneoff" -> applyAddOneOff(w, op)
          [] op.op = "remove_oneoff" -> applyRemoveOneOff(w, op)
          [] op.op = "settings_set" -> applySettingsSet(w, i)
          [] OTHER -> w

RECURSIVE ReplayFromEnd(_, _)
\* A mutated ReplayFrom: the operations are applied last to first.
ReplayFromEnd(w, i) ==
    IF i > Len(w.ops) \/ w.threw THEN w
    ELSE applyOperation(ReplayFromEnd(w, i + 1), i)

RECURSIVE ReplayFrom(_, _)
\* for (const op of scenario.ops) applyOperation(effectiveModel, op); an
\* exception ends the loop
ReplayFrom(w, i) ==
    IF i > Len(w.ops) \/ w.threw THEN w
    ELSE ReplayFrom(applyOperation(w, i), i + 1)

\* applyScenario(baseModel, scenario): the returned effective model (none
\* when an operation threw), and the base model and the scenario's operation
\* list as they are after the call
applyScenario(base, scn) ==
    LET clone == cloneModel(base)
        final == ReplayFrom([model |-> clone.model, ops |-> scn.ops, threw |-> FALSE], 1)
    IN  [threw |-> final.threw,
         effective |-> IF final.threw THEN None ELSE Some(final.model),
         baseAfter |-> IF clone.sameObject THEN final.model ELSE base,
         opsAfter |-> final.ops]

\* A mutated addOperation: the operation is appended and nothing is replaced.
addOperationAppend(scn, op) == [scn EXCEPT !.ops = Append(@, op)]

\* addOperation(scenario, op)
addOperation(scn, op) ==
    LET replaces == op.op \in {"rule_amount_set", "rule_amount_delta", "rule_disable"}
                    /\ op.ruleId # ""
        keep(o) == ~(o.op = op.op /\ o.ruleId = op.ruleId)
        kept == IF replaces THEN SelectSeq(scn.ops, keep) ELSE scn.ops
    IN  [scn EXCEPT !.ops = Append(kept, op)]

\* removeOperation(scenario, index), index counted from 0
removeOperation(scn, index) ==
    IF index >= 0 /\ index < Len(scn.ops)
    THEN [scn EXCEPT !.ops = SubSeq(@, 1, index) \o SubSeq(@, index + 2, Len(@))]
    ELSE scn

\* ------------------------------------------- specification: expandRule

Idle == << >>

\* a rule with the fields expandRule reads
MkRule(id, recurrence, follows, enabled, validFrom, validTo) ==
    [id |-> id, accountId |-> "checking", toAccountId |-> None,
     kind |-> "expense", amount |-> 100, priority |-> 100,
     businessDayAdjustment |-> "none", enabled |-> enabled,
     validFrom |-> validFrom, validTo |-> validTo,
     recurrence |-> recurrence, followsRuleId |-> follows]

MonthlyDays == {0, 1, 15, 28, 29, 30, 31}
AnchorDates == {0, 3, 14, 20, 33, 47}

Recurrences ==
    [type : {"monthly_day"}, day : MonthlyDays]
    \cup [type : {"semimonthly_days"}, day1 : {0, 15, 31}, day2 : {0, 31}]
    \cup [type : {"biweekly_anchor"},
          anchorDate : {None} \cup {Some(a) : a \in AnchorDates}]
    \cup [type : {"weekly_dow"}, dayOfWeek : {None} \cup {Some(w) : w \in 0..6}]

\* the rule "paycheck" of the model, which other rules may follow
FollowedRule ==
    [MkRule("paycheck",
            Some([type |-> "biweekly_anchor", anchorDate |-> Some(20)]),
            None, Some(TRUE), Some(18), Some(40))
       EXCEPT !.kind = "income", !.amount = 2500, !.accountId = "savings"]

\* the rule "relay" of the model: no recurrence of its own, follows "paycheck"
RelayRule ==
    MkRule("relay", None, Some("paycheck"), Some(TRUE), None, None)

RecurRules ==
    {MkRule("r1", Some(rec), None, Some(TRUE), None, None) : rec \in Recurrences}
    \cup {MkRule("r1", Some([type |-> "monthly_day", day |-> 31]), None,
                 Some(TRUE), vf, vt) :
            vf \in {None, Some(10)}, vt \in {None, Some(40)}}
    \cup {MkRule("r1", Some([type |-> "biweekly_anchor", anchorDate |-> Some(14)]),
                 None, Some(TRUE), vf, None) : vf \in {Some(5), Some(30)}}
    \cup {MkRule("r1", rec, Some(f), Some(TRUE), None, None) :
            rec \in {None, Some([type |-> "monthly_day", day |-> 1])},
            f \in {"paycheck", "missing", "relay"}}
    \cup {MkRule("r1", None, Some("paycheck"), Some(TRUE), vf, vt) :
            vf \in {None, Some(10)}, vt \in {None, Some(30)}}
    \cup {MkRule("r1", Some([type |-> "monthly_day", day |-> 1]), None, en,
                 None, None) : en \in {Some(FALSE), None}}

\* <<windowStart, windowEnd>>; a span of -1 is an inverted window
ShortWindows ==
    {<<ws, ws + span>> : ws \in 0..MaxStart, span \in (0 - 1)..MaxSpan}

\* twelve whole calendar months from the first day of month m0
YearWindows ==
    {<<MonthStart(m0), MonthStart(m0 + 12) - 1>> : m0 \in 0..MaxYearStart}

Windows == ShortWindows \cup YearWindows

InitRecur ==
    /\ rIn \in {[rule |-> r, startDate |-> w[1], endDate |-> w[2],
                 model |-> [rules |-> <<FollowedRule, RelayRule, r>>]] :
                   r \in RecurRules, w \in Windows}
    /\ rOut = None
    /\ baseModel = Idle /\ scenario = Idle /\ applied = Idle /\ edited = Idle
    /\ mOut = Idle /\ wIn = Idle /\ wLoop = Idle /\ wOut = Idle
    /\ workingModel = Idle /\ isDirty = Idle /\ storage = Idle
    /\ returned = Idle /\ changed = Idle
    /\ lIn = Idle /\ lOut = Idle /\ tOut = Idle /\ sIn = Idle /\ sOut = Idle
    /\ dIn = Idle /\ dLoop = Idle /\ dOut = Idle
    /\ aIn = Idle /\ aOut = Idle

\* one call of expandRule on the drawn arguments
CallExpandRule ==
    /\ rOut = None
    /\ rOut' = Some(expandRule(rIn.rule, rIn.startDate, rIn.endDate, rIn.model))
    /\ UNCHANGED <<rIn, overlayVars, ledgerVars, summaryVars, debtVars, adjustVars,
                 monthlyVars, weeklyVars, modelVars>>

NextRecur == CallExpandRule

SpecRecur == InitRecur /\ [][NextRecur]_vars

\* the dates of the occurrences returned by the call
OutDates == [i \in 1..Len(Val(rOut)) |-> Val(rOut)[i].date]

\* the call has returned for an enabled rule whose resolved recurrence has
\* the given type
ExpandedAs(type) ==
    /\ IsSome(rOut)
    /\ rIn.rule.enabled = Some(TRUE)
    /\ IsSome(ResolveRecurrence(rIn.rule, rIn.model))
    /\ Val(ResolveRecurrence(rIn.rule, rIn.model)).type = type

\* C6: every date a biweekly_anchor rule emits is anchorDate + 14k with
\* k >= 0 (none before the anchor), and consecutive dates are 14 days apart,
\* also for a window that starts before the anchor.
C6_BiweeklyAnchorAligned ==
    (ExpandedAs("biweekly_anchor")
       /\ IsSome(Val(ResolveRecurrence(rIn.rule, rIn.model)).anchorDate))
    => LET anchor == Val(Val(ResolveRecurrence(rIn.rule, rIn.model)).anchorDate)
       IN  /\ \A i \in 1..Len(OutDates) :
                 /\ OutDates[i] >= anchor
                 /\ (OutDates[i] - anchor) % 14 = 0
           /\ \A i \in 1..(Len(OutDates) - 1) :
                 OutDates[i + 1] - OutDates[i] = 14

\* the months overlapping the clamped window of the call
WindowMonths ==
    LET start == ClampStart(rIn.rule, rIn.startDate)
        end == ClampEnd(rIn.rule, rIn.endDate)
    IN  IF start > end THEN {} ELSE MonthOf(start)..MonthOf(end)

InClampedWindow(d) ==
    /\ d >= ClampStart(rIn.rule, rIn.startDate)
    /\ d <= ClampEnd(rIn.rule, rIn.endDate)

\* a monthly_day rule with a day of 1..31 has been expanded
MonthlyCase ==
    /\ ExpandedAs("monthly_day")
    /\ Val(ResolveRecurrence(rIn.rule, rIn.model)).day \in 1..31

\* the call's window is twelve whole calendar months, not clamped by the rule
IsYearWindow ==
    /\ <<rIn.startDate, rIn.endDate>> \in YearWindows
    /\ rIn.rule.validFrom = None /\ rIn.rule.validTo = None

\* C7: a monthly_day{day} rule emits, for each calendar month overlapping the
\* window, exactly one date, on day min(day, daysInMonth) of that month, when
\* that date lies in the window, and nothing else (never a date rolled into
\* the following month); for day <= 28 a window of twelve whole months gives
\* exactly twelve occurrences, each on that day.
C7_MonthlyDayClamped ==
    MonthlyCase =>
      LET day == Val(ResolveRecurrence(rIn.rule, rIn.model)).day
          target(mi) == MonthStart(mi) + Min(day, DaysInMonth(mi)) - 1
      IN  /\ \A mi \in WindowMonths :
                Cardinality({i \in 1..Len(OutDates) : MonthOf(OutDates[i]) = mi})
                  = (IF InClampedWindow(target(mi)) THEN 1 ELSE 0)
          /\ \A i \in 1..Len(OutDates) :
                /\ MonthOf(OutDates[i]) \in WindowMonths
                /\ OutDates[i] = target(MonthOf(OutDates[i]))
                /\ DayOfMonth(OutDates[i]) = Min(day, DaysInMonth(MonthOf(OutDates[i])))
          /\ (IsYearWindow /\ day <= 28) =>
                /\ Len(OutDates) = 12
                /\ \A i \in 1..12 : DayOfMonth(OutDates[i]) = day

\* witness of C7: day 31 expanded over a window that holds the end of
\* February gives the last day of February
C7_Witness ==
    /\ MonthlyCase
    /\ Val(ResolveRecurrence(rIn.rule, rIn.model)).day = 31
    /\ \E i \in 1..Len(OutDates) :
          MonthOf(OutDates[i]) % 12 = 1 /\ DayOfMonth(OutDates[i]) \in {28, 29}

\* the window of the call after clamping is inverted
ClampedInverted ==
    ClampStart(rIn.rule, rIn.startDate) > ClampEnd(rIn.rule, rIn.endDate)

\* no recurrence can be resolved for the rule: its followsRuleId names no
\* rule of the model or a rule without recurrence, or it follows no rule and
\* has no recurrence of its own
Unresolved ==
    IF IsSome(rIn.rule.followsRuleId)
    THEN LET followedRule == FindRule(rIn.model.rules, Val(rIn.rule.followsRuleId))
         IN  followedRule = None \/ Val(followedRule).recurrence = None
    ELSE rIn.rule.recurrence = None

\* C13: every occurrence expandRule returns is dated within
\* [max(windowStart, validFrom), min(windowEnd, validTo)], and the result is
\* empty when that window is inverted, when the rule is disabled, or when no
\* recurrence can be resolved (a followsRuleId naming no rule included).
C13_ClampedOrEmpty ==
    IsSome(rOut) =>
        /\ \A i \in 1..Len(OutDates) : InClampedWindow(OutDates[i])
        /\ (ClampedInverted \/ rIn.rule.enabled = Some(FALSE) \/ Unresolved)
              => Val(rOut) = << >>

\* the call has returned for an enabled rule that follows a rule of the model
FollowsRule ==
    /\ IsSome(rOut)
    /\ rIn.rule.enabled = Some(TRUE)
    /\ IsSome(rIn.rule.followsRuleId)
    /\ IsSome(FindRule(rIn.model.rules, Val(rIn.rule.followsRuleId)))

\* the rule named by the followsRuleId of the call's rule
Followed == Val(FindRule(rIn.model.rules, Val(rIn.rule.followsRuleId)))

\* C21: a rule A that follows a rule B is expanded with B's own recurrence
\* over A's validity-clamped window, every occurrence carrying A's amount,
\* account and kind; when B has no recurrence of its own and only follows a
\* third rule, A's expansion is empty.
C21_OneHop ==
    FollowsRule =>
      IF IsSome(Followed.recurrence)
      THEN /\ ~ClampedInverted =>
                 OutDates = ExpandDates(Val(Followed.recurrence),
                                        ClampStart(rIn.rule, rIn.startDate),
                                        ClampEnd(rIn.rule, rIn.endDate))
           /\ \A i \in 1..Len(Val(rOut)) :
                 /\ Val(rOut)[i].ruleId = Some(rIn.rule.id)
                 /\ Val(rOut)[i].amount = rIn.rule.amount
                 /\ Val(rOut)[i].accountId = rIn.rule.accountId
                 /\ Val(rOut)[i].kind = rIn.rule.kind
                 /\ InClampedWindow(Val(rOut)[i].date)
      ELSE Val(rOut) = << >>

\* witness of C21: a rule following "relay", which only follows "paycheck",
\* expanded over a window that holds a paycheck date, returns nothing
C21_Witness ==
    /\ FollowsRule
    /\ Followed.id = "relay"
    /\ Followed.recurrence = None /\ IsSome(Followed.followsRuleId)
    /\ rIn.startDate <= 20 /\ rIn.endDate >= 20
    /\ Val(rOut) = << >>

\* ------------------------------ specification: the loops of expandWeeklyDow

WeeklyRecurrences ==
    [type : {"weekly_dow"},
     dayOfWeek : {None} \cup {Some(w) : w \in (0 - 1)..8}]

\* the call enters the function: current = start, dates = []
InitWeekly ==
    /\ wIn \in {[recurrence |-> rec, start |-> w[1], end |-> w[2]] :
                   rec \in WeeklyRecurrences, w \in ShortWindows}
    /\ wLoop = [current |-> wIn.start, dates |-> << >>, steps |-> 0]
    /\ wOut = None
    /\ baseModel = Idle /\ scenario = Idle /\ applied = Idle /\ edited = Idle
    /\ rIn = Idle /\ rOut = Idle
    /\ lIn = Idle /\ lOut = Idle /\ tOut = Idle /\ sIn = Idle /\ sOut = Idle
    /\ dIn = Idle /\ dLoop = Idle /\ dOut = Idle
    /\ aIn = Idle /\ aOut = Idle /\ mOut = Idle
    /\ workingModel = Idle /\ isDirty = Idle /\ storage = Idle
    /\ returned = Idle /\ changed = Idle

\* one iteration of `while (current.weekday !== luxonDow)`
WeeklySearchStep ==
    /\ wOut = None
    /\ Weekday(wLoop.current) # LuxonDow(wIn.recurrence)
    /\ wLoop.steps < MaxLoopSteps
    /\ wLoop' = [wLoop EXCEPT !.current = @ + 1, !.steps = @ + 1]
    /\ UNCHANGED <<wIn, wOut, overlayVars, recurVars, ledgerVars, summaryVars,
                   debtVars, adjustVars, monthlyVars, modelVars>>

\* one iteration of `while (current <= end)`
WeeklyEmitStep ==
    /\ wOut = None
    /\ Weekday(wLoop.current) = LuxonDow(wIn.recurrence)
    /\ wLoop.current <= wIn.end
    /\ wLoop' = [wLoop EXCEPT !.dates = Append(@, wLoop.current),
                              !.current = @ + 7, !.steps = @ + 1]
    /\ UNCHANGED <<wIn, wOut, overlayVars, recurVars, ledgerVars, summaryVars,
                   debtVars, adjustVars, monthlyVars, modelVars>>

\* both loops have exited: return dates
WeeklyReturn ==
    /\ wOut = None
    /\ Weekday(wLoop.current) = LuxonDow(wIn.recurrence)
    /\ wLoop.current > wIn.end
    /\ wOut' = Some(wLoop.dates)
    /\ UNCHANGED <<wIn, wLoop, overlayVars, recurVars, ledgerVars, summaryVars,
                   debtVars, adjustVars, monthlyVars, modelVars>>

NextWeekly == WeeklySearchStep \/ WeeklyEmitStep \/ WeeklyReturn

SpecWeekly == InitWeekly /\ [][NextWeekly]_vars

\* the number of days of the window of the call
WindowLength == IF wIn.end < wIn.start THEN 0 ELSE wIn.end - wIn.start + 1

\* C25: the expansion of a rule over a finite window terminates for every
\* recurrence value, a weekly_dow dayOfWeek outside 0..6 included: the loops
\* take a number of steps bounded by the window length (and the week the
\* search for the first occurrence may cover).
C25_BoundedSteps ==
    wLoop.steps <= WindowLength + 7

\* the loops return what expandWeeklyDow gives
WeeklyLoopsAgree ==
    IsSome(wOut) =>
        Val(wOut) = expandWeeklyDow(wIn.recurrence, wIn.start, wIn.end)

\* ------------------------------------------------------- safe surplus

\* settings.buffer || 300 and settings.floor || 2000
DefaultBuffer == 300
DefaultFloor == 2000

\* value || dflt for an optional number: absent and 0 both give the default
OrDefault(opt, dflt) ==
    IF IsSome(opt) /\ Val(opt) # 0 THEN Val(opt) ELSE dflt

\* calculateSafeSurplus(summaries, monthIndex, settings); monthIndex counts
\* from 0 and summaries[monthIndex] is the TLA+ element monthIndex + 1.
\* The message strings are left out.
calculateSafeSurplus(summaries, monthIndex, settings) ==
    LET mode == IF settings.mode = "" THEN "next_month_trough" ELSE settings.mode
        buffer == OrDefault(settings.buffer, DefaultBuffer)
        floor == OrDefault(settings.floor, DefaultFloor)
        has(i) == i >= 0 /\ i < Len(summaries)
        none == [safeWithdrawable |-> 0, noData |-> FALSE, mode |-> mode,
                 isUnsafe |-> None, unsafeBy |-> None, isEstimate |-> None,
                 required |-> None]
    IN  IF ~has(monthIndex) THEN [none EXCEPT !.noData = TRUE]
        ELSE LET endBalance == summaries[monthIndex + 1].endBalance
             IN  IF mode = "floor"
                 THEN [none EXCEPT !.safeWithdrawable = Max(0, endBalance - floor)]
                 ELSE IF ~has(monthIndex + 1)
                 THEN [none EXCEPT
                         !.safeWithdrawable = Max(0, endBalance - floor - buffer),
                         !.mode = "next_month_trough",
                         !.isEstimate = Some(TRUE)]
                 ELSE LET nextMonthTrough == summaries[monthIndex + 2].minBalance
                          required == nextMonthTrough + buffer
                          safeWithdrawable == endBalance - required
                      IN  IF safeWithdrawable >= 0
                          THEN [none EXCEPT
                                  !.safeWithdrawable = safeWithdrawable,
                                  !.mode = "next_month_trough",
                                  !.required = Some(required)]
                          ELSE [none EXCEPT
                                  !.safeWithdrawable = 0,
                                  !.unsafeBy = Some(Abs(safeWithdrawable)),
                                  !.mode = "next_month_trough",
                                  !.required = Some(required),
                                  !.isUnsafe = Some(TRUE)]

\* ------------------------------- specification: calculateSafeSurplus

Balances == {0, 1000, 2500, 5000}

\* a month's trough is at most its end balance
MonthSummaries ==
    {ms \in [endBalance : Balances, minBalance : Balances] :
        ms.minBalance <= ms.endBalance}

RECURSIVE SeqsUpTo(_, _)
\* the sequences over S of length 0..n
SeqsUpTo(S, n) ==
    IF n = 0 THEN {<< >>}
    ELSE LET shorter == SeqsUpTo(S, n - 1)
         IN  shorter \cup {Append(q, x) : q \in {r \in shorter : Len(r) = n - 1}, x \in S}

SurplusSettings ==
    [mode : {"", "floor", "next_month_trough"},
     buffer : {None, Some(0), Some(300), Some(500)},
     floor : {None, Some(0), Some(1000), Some(2000)}]

InitSurplus ==
    /\ sIn \in {[summaries |-> q, monthIndex |-> i, settings |-> st] :
                   q \in SeqsUpTo(MonthSummaries, MaxSummaries) \ {<< >>},
                   i \in 0..(MaxSummaries - 1), st \in SurplusSettings}
    /\ sOut = None
    /\ baseModel = Idle /\ scenario = Idle /\ applied = Idle /\ edited = Idle
    /\ mOut = Idle /\ wIn = Idle /\ wLoop = Idle /\ wOut = Idle
    /\ workingModel = Idle /\ isDirty = Idle /\ storage = Idle
    /\ returned = Idle /\ changed = Idle
    /\ rIn = Idle /\ rOut = Idle /\ lIn = Idle /\ lOut = Idle /\ tOut = Idle
    /\ dIn = Idle /\ dLoop = Idle /\ dOut = Idle
    /\ aIn = Idle /\ aOut = Idle

\* one call of calculateSafeSurplus on the drawn arguments
CallSafeSurplus ==
    /\ sOut = None
    /\ sOut' = Some(calculateSafeSurplus(sIn.summaries, sIn.monthIndex, sIn.settings))
    /\ UNCHANGED <<sIn, overlayVars, recurVars, ledgerVars, debtVars, adjustVars,
                 monthlyVars, weeklyVars, modelVars>>

NextSurplus == CallSafeSurplus

SpecSurplus == InitSurplus /\ [][NextSurplus]_vars

\* the call has returned for a target month that exists
SurplusDone == IsSome(sOut) /\ sIn.monthIndex < Len(sIn.summaries)

TroughMode == sIn.settings.mode \in {"", "next_month_trough"}

HasNextMonth == sIn.monthIndex + 1 < Len(sIn.summaries)

\* C8: in next_month_trough mode with month i+1 present, for every configured
\* buffer, d = endBalance[i] - (minBalance[i+1] + buffer); d >= 0 gives
\* safeWithdrawable = d with isUnsafe absent, d < 0 gives safeWithdrawable = 0,
\* isUnsafe = true and unsafeBy = -d.
C8_TroughUsesConfiguredBuffer ==
    (SurplusDone /\ TroughMode /\ HasNextMonth /\ IsSome(sIn.settings.buffer))
    => LET required == sIn.summaries[sIn.monthIndex + 2].minBalance
                         + Val(sIn.settings.buffer)
           d == sIn.summaries[sIn.monthIndex + 1].endBalance - required
           r == Val(sOut)
       IN  IF d >= 0
           THEN r.safeWithdrawable = d /\ r.isUnsafe = None
           ELSE r.safeWithdrawable = 0 /\ r.isUnsafe = Some(TRUE)
                /\ r.unsafeBy = Some(0 - d)

\* the floor a call is configured with: settings.floor, or 2000 when missing
ConfiguredFloor ==
    IF IsSome(sIn.settings.floor) THEN Val(sIn.settings.floor) ELSE DefaultFloor

\* C9: in next_month_trough mode with no month i+1, the result is the floor
\* formula max(0, endBalance[i] - floor), that is the value floor mode gives
\* for the same month and settings, flagged isEstimate = true.
C9_FallbackIsFloorFormula ==
    (SurplusDone /\ TroughMode /\ ~HasNextMonth)
    => LET floorMode == calculateSafeSurplus(sIn.summaries, sIn.monthIndex,
                            [sIn.settings EXCEPT !.mode = "floor"])
       IN  /\ Val(sOut).safeWithdrawable = floorMode.safeWithdrawable
           /\ Val(sOut).isEstimate = Some(TRUE)

\* C10: in floor mode safeWithdrawable = max(0, endBalance[i] - floor) for
\* every configured floor, a floor of 0 included; 2000 only when it is missing.
C10_FloorModeUsesConfiguredFloor ==
    (SurplusDone /\ sIn.settings.mode = "floor")
    => Val(sOut).safeWithdrawable
         = Max(0, sIn.summaries[sIn.monthIndex + 1].endBalance - ConfiguredFloor)

\* --------------------------------------------- specification: runLedger

RECURSIVE DistinctSeqsUpTo(_, _)
\* the sequences of distinct elements of S, of length 0..n
DistinctSeqsUpTo(S, n) ==
    IF n = 0 THEN {<< >>}
    ELSE LET shorter == DistinctSeqsUpTo(S, n - 1)
             longest == {r \in shorter : Len(r) = n - 1}
             fresh == {p \in longest \X S : \A i \in 1..Len(p[1]) : p[1][i] # p[2]}
         IN  shorter \cup {Append(p[1], p[2]) : p \in fresh}

LedgerRule(id, kind, accountId, toAccountId, amount, priority, adjustment, recurrence, enabled) ==
    [id |-> id, accountId |-> accountId, toAccountId |-> toAccountId,
     kind |-> kind, amount |-> amount, priority |-> priority,
     businessDayAdjustment |-> adjustment, enabled |-> enabled,
     validFrom |-> None, validTo |-> None,
     recurrence |-> Some(recurrence), followsRuleId |-> None]

LedgerRules ==
    {LedgerRule("paycheck", "income", "checking", None, 1000, 0,
                "next_business_day",
                [type |-> "biweekly_anchor", anchorDate |-> Some(5)], Some(TRUE)),
     LedgerRule("rent", "expense", "checking", None, 700, 50,
                "prev_business_day", [type |-> "monthly_day", day |-> 1], Some(TRUE)),
     LedgerRule("utilities", "expense", "checking", None, 0 - 50, 0,
                "none", [type |-> "monthly_day", day |-> 1], Some(TRUE)),
     LedgerRule("save", "transfer", "checking", Some("savings"), 200, 100,
                "", [type |-> "monthly_day", day |-> 15], Some(TRUE)),
     LedgerRule("refund", "transfer", "savings", Some("checking"), 0 - 150, 100,
                "none", [type |-> "weekly_dow", dayOfWeek |-> Some(0)], Some(TRUE)),
     LedgerRule("interest", "income", "savings", None, 30, 50,
                "none", [type |-> "monthly_day", day |-> 1], Some(TRUE)),
     LedgerRule("sweep", "transfer", "checking", Some("checking"), 10, 100,
                "next_business_day",
                [type |-> "weekly_dow", dayOfWeek |-> Some(5)], Some(TRUE)),
     LedgerRule("gym", "expense", "checking", None, 25, 100,
                "none", [type |-> "weekly_dow", dayOfWeek |-> Some(0)], Some(TRUE)),
     LedgerRule("old", "income", "checking", None, 5, 100,
                "none", [type |-> "monthly_day", day |-> 1], Some(FALSE)),
     LedgerRule("legacy", "income", "checking", None, 15, 100,
                "none", [type |-> "monthly_day", day |-> 10], None)}

LedgerOneOffs ==
    {[id |-> "o1", date |-> 31, accountId |-> "checking", amount |-> 0 - 40],
     [id |-> "o2", date |-> 31, accountId |-> "checking", amount |-> 75]}

LedgerAccounts ==
    <<[id |-> "checking", type |-> "checking"],
      [id |-> "savings", type |-> "savings"]>>

LedgerBalances ==
    <<[accountId |-> "checking", date |-> 0, amount |-> 500],
      [accountId |-> "savings", date |-> 5, amount |-> 60],
      [accountId |-> "checking", date |-> 20, amount |-> 900],
      [accountId |-> "checking", date |-> 30, amount |-> 0 - 100]>>

LedgerSettings ==
    {None,
     Some([forecastHorizonDays |-> 12,
           businessDays |-> Some([weekendsAreNonBusinessDays |-> Some(FALSE)])]),
     Some([forecastHorizonDays |-> 12, businessDays |-> None])}

LedgerModels ==
    {[accounts |-> LedgerAccounts, startingBalances |-> LedgerBalances,
      rules |-> rs, oneOffs |-> os, settings |-> st] :
        rs \in DistinctSeqsUpTo(LedgerRules, MaxRules),
        os \in DistinctSeqsUpTo(LedgerOneOffs, MaxOneOffs),
        st \in LedgerSettings}

LedgerOptions ==
    {[startDate |-> w[1], endDate |-> w[2], accountId |-> a] :
        w \in {<<Some(0), Some(35)>>, <<Some(25), Some(40)>>,
               <<Some(10), Some(9)>>, <<None, None>>},
        a \in {None, Some("savings")}}

\* the date DateTime.now() gives in the runs of the model
Today == 25

InitLedger ==
    /\ lIn \in {[model |-> md, options |-> op] :
                   md \in LedgerModels, op \in LedgerOptions}
    /\ lOut = None
    /\ tOut = None
    /\ baseModel = Idle /\ scenario = Idle /\ applied = Idle /\ edited = Idle
    /\ mOut = Idle /\ wIn = Idle /\ wLoop = Idle /\ wOut = Idle
    /\ workingModel = Idle /\ isDirty = Idle /\ storage = Idle
    /\ returned = Idle /\ changed = Idle
    /\ rIn = Idle /\ rOut = Idle /\ sIn = Idle /\ sOut = Idle
    /\ dIn = Idle /\ dLoop = Idle /\ dOut = Idle
    /\ aIn = Idle /\ aOut = Idle

\* one call of runLedger on the drawn arguments
CallRunLedger ==
    /\ lOut = None
    /\ lOut' = Some(runLedger(lIn.model, lIn.options, Today))
    /\ UNCHANGED <<lIn, tOut, overlayVars, recurVars, summaryVars, debtVars, adjustVars,
                 monthlyVars, weeklyVars, modelVars>>

\* one call of generateTransactions on the drawn model and window
CallGenerateTransactions ==
    /\ tOut = None
    /\ IsSome(lIn.options.startDate) /\ IsSome(lIn.options.endDate)
    /\ tOut' = Some(generateTransactions(lIn.model, Val(lIn.options.startDate),
                                         Val(lIn.options.endDate)))
    /\ UNCHANGED <<lIn, lOut, overlayVars, recurVars, summaryVars, debtVars, adjustVars,
                 monthlyVars, weeklyVars, modelVars>>

NextLedger == CallRunLedger \/ CallGenerateTransactions

SpecLedger == InitLedger /\ [][NextLedger]_vars

\* C1: the summary of every run satisfies endBalance = startingBalance
\* + totalIncome - totalExpenses + totalTransfersIn - totalTransfersOut, and
\* endBalance is the balance of the last ledger entry.
C1_BalanceIdentity ==
    IsSome(lOut) =>
      LET r == Val(lOut)
          sm == r.summary
      IN  /\ sm.endBalance = r.startingBalance + sm.totalIncome - sm.totalExpenses
                               + sm.totalTransfersIn - sm.totalTransfersOut
          /\ sm.endBalance = r.entries[Len(r.entries)].balance

\* witness of C1: a run with an expense of negative rule amount, an incoming
\* or outgoing transfer and an income in one ledger
C1_Witness ==
    /\ IsSome(lOut)
    /\ Val(lOut).summary.totalIncome > 0
    /\ Val(lOut).summary.totalExpenses > 0
    /\ Val(lOut).summary.totalTransfersIn + Val(lOut).summary.totalTransfersOut > 0
    /\ \E i \in 1..Len(Val(lOut).entries) :
          Val(lOut).entries[i].ruleId = Some("utilities")

\* the run was called with an inverted window
InvertedRun == IsSome(lOut) /\ Val(lOut).startDate > Val(lOut).endDate

\* C14: runLedger called with an inverted window (startDate > endDate)
\* returns exactly one entry, the Starting Balance entry, with all four totals
\* and transactionCount 0 and endBalance = minBalance = maxBalance
\* = startingBalance.
C14_InvertedWindow ==
    InvertedRun =>
      LET r == Val(lOut)
          sm == r.summary
      IN  /\ Len(r.entries) = 1
          /\ r.entries[1].isStartingBalance
          /\ r.entries[1].balance = r.startingBalance
          /\ sm.totalIncome = 0 /\ sm.totalExpenses = 0
          /\ sm.totalTransfersIn = 0 /\ sm.totalTransfersOut = 0
          /\ sm.transactionCount = 0
          /\ sm.endBalance = r.startingBalance
          /\ sm.minBalance = r.startingBalance
          /\ sm.maxBalance = r.startingBalance

\* an inverted run of a model that has rules and one-offs for the account
C14_Witness ==
    /\ InvertedRun
    /\ Len(lIn.model.rules) > 0
    /\ Len(lIn.model.oneOffs) > 0
    /\ Val(lOut).startingBalance # 0

\* positions of the model's StartingBalance entries of the run's account
\* dated on or before the run's startDate
BalanceCandidates ==
    {i \in 1..Len(lIn.model.startingBalances) :
        /\ lIn.model.startingBalances[i].accountId = Val(lOut).accountId
        /\ lIn.model.startingBalances[i].date <= Val(lOut).startDate}

\* C18: the starting balance of a run is the amount of the account's
\* StartingBalance entry with the latest date <= startDate, and 0 when the
\* account has none; other accounts' entries and later entries do not count.
C18_StartingBalance ==
    IsSome(lOut) =>
      IF BalanceCandidates = {} THEN Val(lOut).startingBalance = 0
      ELSE \E i \in BalanceCandidates :
              /\ \A j \in BalanceCandidates :
                    lIn.model.startingBalances[j].date
                      <= lIn.model.startingBalances[i].date
              /\ Val(lOut).startingBalance = lIn.model.startingBalances[i].amount

\* a run whose account has two entries on or before startDate and one after
C18_Witness ==
    /\ IsSome(lOut)
    /\ Cardinality(BalanceCandidates) = 2
    /\ \E i \in 1..Len(lIn.model.startingBalances) :
          /\ lIn.model.startingBalances[i].accountId = Val(lOut).accountId
          /\ lIn.model.startingBalances[i].date > Val(lOut).startDate
    /\ Val(lOut).startingBalance = 900

\* the arguments of the generateTransactions call
GenStart == Val(lIn.options.startDate)
GenEnd == Val(lIn.options.endDate)

\* the number of returned transactions that come from the rule
FromRule(rule) ==
    Cardinality({i \in 1..Len(Val(tOut)) : Val(tOut)[i].ruleId = Some(rule.id)})

\* the number of occurrences the rule's recurrence has in the window
OccurrencesInWindow(rule) ==
    Len(expandRule([rule EXCEPT !.enabled = Some(TRUE)], GenStart, GenEnd, lIn.model))

\* C19: generateTransactions expands every rule whose enabled flag is not
\* exactly false: a rule with enabled = true or without the field contributes
\* its occurrences in the window, a rule with enabled = false contributes none.
C19_EnabledNotFalse ==
    IsSome(tOut) =>
      \A k \in 1..Len(lIn.model.rules) :
         LET rule == lIn.model.rules[k]
         IN  FromRule(rule) = IF rule.enabled = Some(FALSE) THEN 0
                              ELSE OccurrencesInWindow(rule)

\* the priority the transaction's source declares: its rule's priority
\* field, or 50 for a one-off
DeclaredPriority(t) ==
    IF IsSome(t.ruleId) THEN Val(FindRule(lIn.model.rules, Val(t.ruleId))).priority
    ELSE 50

\* C20: within one date a transaction of lower priority is ordered before one
\* of higher priority, for every priority a rule can carry, 0 included: each
\* occurrence carries its rule's own priority and one-offs carry 50.
C20_PriorityOrder ==
    IsSome(tOut) =>
      LET out == Val(tOut)
      IN  /\ \A i \in 1..Len(out) : out[i].priority = DeclaredPriority(out[i])
          /\ \A i \in 1..Len(out) : \A j \in (i + 1)..Len(out) :
                out[i].date = out[j].date
                  => DeclaredPriority(out[i]) <= DeclaredPriority(out[j])

\* the sort key of the claim: date, priority, kind with income < transfer < expense
SortKey(t) ==
    <<t.date, t.priority,
      CASE t.kind = "income" -> 0 [] t.kind = "transfer" -> 1 [] t.kind = "expense" -> 2>>

KeyLess(a, b) ==
    \/ a[1] < b[1]
    \/ a[1] = b[1] /\ a[2] < b[2]
    \/ a[1] = b[1] /\ a[2] = b[2] /\ a[3] < b[3]

\* position of the element of a sequence whose id is given
IndexOfId(q, id) == CHOOSE i \in 1..Len(q) : q[i].id = id

\* emission order: occurrences of rules in rule-list order (those of one rule
\* in expansion order), then one-offs in model order
EmissionRank(t) ==
    IF IsSome(t.ruleId)
    THEN <<0, IndexOfId(lIn.model.rules, Val(t.ruleId)), Val(t.originalDate)>>
    ELSE <<1, IndexOfId(lIn.model.oneOffs, Val(t.oneOffId)), 0>>

\* number of elements of a sequence equal to x
CountIn(q, x) == Cardinality({i \in 1..Len(q) : q[i] = x})

\* C5: the list generateTransactions returns holds the emitted transactions
\* ordered by (date, priority, kind rank income < transfer < expense), and
\* transactions equal on all three keys stay in emission order.
C5_SortedStable ==
    IsSome(tOut) =>
      LET out == Val(tOut)
          emitted == EmittedTransactions(lIn.model, Val(lIn.options.startDate),
                                         Val(lIn.options.endDate))
      IN  /\ Len(out) = Len(emitted)
          /\ \A i \in 1..Len(emitted) : CountIn(out, emitted[i]) = CountIn(emitted, emitted[i])
          /\ \A i, j \in 1..Len(out) :
                i < j =>
                  \/ KeyLess(SortKey(out[i]), SortKey(out[j]))
                  \/ /\ SortKey(out[i]) = SortKey(out[j])
                     /\ KeyLess(EmissionRank(out[i]), EmissionRank(out[j]))

\* witness of C5: the returned list holds two transactions with equal keys,
\* two that differ only in kind, and a one-off placed before a rule occurrence
C5_Witness ==
    /\ IsSome(tOut)
    /\ \E i, j \in 1..Len(Val(tOut)) :
          i < j /\ SortKey(Val(tOut)[i]) = SortKey(Val(tOut)[j])
    /\ \E i, j \in 1..Len(Val(tOut)) :
          /\ i < j
          /\ Val(tOut)[i].date = Val(tOut)[j].date
          /\ Val(tOut)[i].priority = Val(tOut)[j].priority
          /\ Val(tOut)[i].kind # Val(tOut)[j].kind
    /\ \E i, j \in 1..Len(Val(tOut)) :
          i < j /\ IsSome(Val(tOut)[i].oneOffId) /\ IsSome(Val(tOut)[j].ruleId)

\* C26: every transaction generateTransactions returns is dated, after the
\* business-day adjustment, inside [startDate, endDate].
C26_AdjustedInWindow ==
    IsSome(tOut) =>
      \A i \in 1..Len(Val(tOut)) :
          Val(tOut)[i].date >= GenStart /\ Val(tOut)[i].date <= GenEnd

\* ------------------------- specification: runLedger, then monthly summaries

MonthlyRules ==
    {LedgerRule("weekend", "expense", "checking", None, 30, 100,
                "prev_business_day",
                [type |-> "weekly_dow", dayOfWeek |-> Some(5)], Some(TRUE)),
     LedgerRule("rent", "expense", "checking", None, 700, 50,
                "prev_business_day", [type |-> "monthly_day", day |-> 1], Some(TRUE)),
     LedgerRule("paycheck", "income", "checking", None, 1000, 100,
                "next_business_day",
                [type |-> "biweekly_anchor", anchorDate |-> Some(5)], Some(TRUE)),
     LedgerRule("save", "transfer", "checking", Some("savings"), 200, 100,
                "none", [type |-> "monthly_day", day |-> 31], Some(TRUE))}

MonthlyOneOffs ==
    {[id |-> "tax", date |-> 75, accountId |-> "checking", amount |-> 0 - 300],
     [id |-> "gift", date |-> 31, accountId |-> "checking", amount |-> 75]}

MonthlyModels ==
    {[accounts |-> LedgerAccounts, startingBalances |-> LedgerBalances,
      rules |-> rs, oneOffs |-> os, settings |-> st] :
        rs \in DistinctSeqsUpTo(MonthlyRules, MaxRules),
        os \in DistinctSeqsUpTo(MonthlyOneOffs, MaxOneOffs),
        st \in {None,
                Some([forecastHorizonDays |-> 0,
                      businessDays |-> Some([weekendsAreNonBusinessDays |-> Some(FALSE)])])}}

\* windows: from a Saturday, over three months, from Saturday 2024-06-01,
\* inverted
MonthlyOptions ==
    {[startDate |-> Some(w[1]), endDate |-> Some(w[2]), accountId |-> None] :
        w \in {<<5, 20>>, <<20, 80>>, <<152, 165>>, <<40, 39>>}}

InitMonthly ==
    /\ lIn \in {[model |-> md, options |-> op] :
                   md \in MonthlyModels, op \in MonthlyOptions}
    /\ lOut = None
    /\ mOut = None
    /\ tOut = Idle
    /\ baseModel = Idle /\ scenario = Idle /\ applied = Idle /\ edited = Idle
    /\ wIn = Idle /\ wLoop = Idle /\ wOut = Idle
    /\ workingModel = Idle /\ isDirty = Idle /\ storage = Idle
    /\ returned = Idle /\ changed = Idle
    /\ rIn = Idle /\ rOut = Idle /\ sIn = Idle /\ sOut = Idle
    /\ dIn = Idle /\ dLoop = Idle /\ dOut = Idle
    /\ aIn = Idle /\ aOut = Idle

\* one call of calculateMonthlySummaries on the result of runLedger
CallMonthlySummaries ==
    /\ IsSome(lOut)
    /\ mOut = None
    /\ mOut' = Some(calculateMonthlySummaries(Val(lOut)))
    /\ UNCHANGED <<ledgerVars, overlayVars, recurVars, summaryVars, debtVars,
                   adjustVars, weeklyVars, modelVars>>

NextMonthly == CallRunLedger \/ CallMonthlySummaries

SpecMonthly == InitMonthly /\ [][NextMonthly]_vars

\* the returned summaries and the ledger result they were computed from
Summaries == Val(mOut)
LedgerEntries == Val(lOut).entries

\* the non-synthetic ledger entries dated in the given month, in ledger order
RealEntriesOf(month) ==
    LET picked(e) == ~e.isStartingBalance /\ MonthOf(e.date) = month
    IN  SelectSeq(LedgerEntries, picked)

\* C22: the months of the summaries ascend; the first startBalance is the
\* ledger's startingBalance and each later one is the previous endBalance;
\* the endBalance of a month is the balance of its last transaction entry,
\* and a month without transaction entries has endBalance = minBalance =
\* maxBalance = its startBalance.
C22_SummariesChain ==
    IsSome(mOut) =>
      /\ \A k \in 1..(Len(Summaries) - 1) :
            /\ Summaries[k].month < Summaries[k + 1].month
            /\ Summaries[k + 1].startBalance = Summaries[k].endBalance
      /\ Len(Summaries) > 0 => Summaries[1].startBalance = Val(lOut).startingBalance
      /\ \A k \in 1..Len(Summaries) :
            LET real == RealEntriesOf(Summaries[k].month)
            IN  IF real # << >>
                THEN Summaries[k].endBalance = real[Len(real)].balance
                ELSE /\ Summaries[k].endBalance = Summaries[k].startBalance
                     /\ Summaries[k].minBalance = Summaries[k].startBalance
                     /\ Summaries[k].maxBalance = Summaries[k].startBalance

\* witness of C22: three summaries, the first for a month that holds only
\* the Starting Balance entry, the last with transaction entries
C22_Witness ==
    /\ IsSome(mOut)
    /\ Len(Summaries) = 3
    /\ RealEntriesOf(Summaries[1].month) = << >>
    /\ RealEntriesOf(Summaries[3].month) # << >>
    /\ Summaries[3].endBalance # Summaries[3].startBalance

\* C27: the dates of the entries runLedger returns never decrease from the
\* Starting Balance entry (dated startDate) on: every daysSinceLast is >= 0
\* and no entry is dated before the first one.
C27_DatesNonDecreasing ==
    IsSome(lOut) =>
      /\ LedgerEntries[1].isStartingBalance
      /\ LedgerEntries[1].date = Val(lOut).startDate
      /\ \A i \in 2..Len(LedgerEntries) :
            /\ LedgerEntries[i - 1].date <= LedgerEntries[i].date
            /\ Val(LedgerEntries[i].daysSinceLast) >= 0
            /\ LedgerEntries[i].date >= LedgerEntries[1].date

\* C28: consecutive summaries are consecutive calendar months, so that the
\* summary after index i is that of the calendar month following month i.
C28_ConsecutiveMonths ==
    IsSome(mOut) =>
      \A k \in 1..(Len(Summaries) - 1) :
          Summaries[k + 1].month = Summaries[k].month + 1

\* ------------------------------------- specification: the scenario overlay

\* createOp: the operations as the factory builds them; ruleId is "" for the
\* operations that carry none
ruleAmountSet(ruleId, amount) ==
    [op |-> "rule_amount_set", ruleId |-> ruleId, amount |-> Some(amount)]

ruleAmountDelta(ruleId, delta) ==
    [op |-> "rule_amount_delta", ruleId |-> ruleId, delta |-> Some(delta)]

ruleDisable(ruleId, disabled) ==
    [op |-> "rule_disable", ruleId |-> ruleId, disabled |-> disabled]

ruleRecurrenceSet(ruleId, recurrence) ==
    [op |-> "rule_recurrence_set", ruleId |-> ruleId, recurrence |-> Some(recurrence)]

addOneOff(oneOffId, date, amount) ==
    [op |-> "add_oneoff", ruleId |-> "", oneOffId |-> oneOffId, date |-> date,
     accountId |-> "", amount |-> amount]

removeOneOff(oneOffId) ==
    [op |-> "remove_oneoff", ruleId |-> "", oneOffId |-> oneOffId]

settingsSet(path, value) ==
    [op |-> "settings_set", ruleId |-> "", path |-> path, value |-> Some(value)]

\* the operations a scenario is built from
OpCatalog ==
    {ruleAmountSet("rent", 250),
     ruleAmountDelta("rent", 20),
     ruleAmountDelta("gym", 0 - 5),
     ruleDisable("rent", TRUE),
     ruleDisable("rent", FALSE),
     ruleRecurrenceSet("gym", [type |-> "weekly_dow", dayOfWeek |-> Some(1)]),
     addOneOff("s1", 10, 0 - 30),
     removeOneOff("o1"),
     settingsSet(<<"forecastHorizonDays">>, Num(90)),
     settingsSet(<<"safeSurplus">>, Obj("floor" :> Num(1000))),
     settingsSet(<<"safeSurplus", "floor">>, Num(500)),
     settingsSet(<<"safeSurplus", "buffer">>, Num(0))}

OverlayRent ==
    MkRule("rent", Some([type |-> "monthly_day", day |-> 1]), None, Some(TRUE),
           None, None)

OverlayGym ==
    [MkRule("gym", None, Some("rent"), Some(TRUE), None, None) EXCEPT !.amount = 40]

OverlayOneOff ==
    [id |-> "o1", date |-> 12, accountId |-> "checking", amount |-> 0 - 60,
     tags |-> << >>]

\* the base models: one with rules, a one-off and settings, one with a
\* disabled rule and neither one-offs nor settings, one whose safeSurplus
\* settings are absent
BaseModels ==
    {[rules |-> <<OverlayRent, OverlayGym>>, oneOffs |-> Some(<<OverlayOneOff>>),
      settings |-> Some(Obj(("forecastHorizonDays" :> Num(180))
                            @@ ("safeSurplus" :> Obj("buffer" :> Num(300)))))],
     [rules |-> <<[OverlayRent EXCEPT !.enabled = Some(FALSE)]>>,
      oneOffs |-> None, settings |-> None],
     [rules |-> <<OverlayGym, OverlayRent>>, oneOffs |-> Some(<< >>),
      settings |-> Some(Obj("forecastHorizonDays" :> Num(180)))]}

\* The session starts with a base model and with the scenario draft read
\* from storage (loadScenarioDraft) or a new one (createScenario).
Init ==
    /\ baseModel \in BaseModels
    /\ scenario \in {[ops |-> q] : q \in SeqsUpTo(OpCatalog, MaxOps)}
    /\ applied = None
    /\ edited = None
    /\ rIn = Idle /\ rOut = Idle /\ lIn = Idle /\ lOut = Idle /\ tOut = Idle
    /\ sIn = Idle /\ sOut = Idle
    /\ dIn = Idle /\ dLoop = Idle /\ dOut = Idle
    /\ aIn = Idle /\ aOut = Idle
    /\ mOut = Idle /\ wIn = Idle /\ wLoop = Idle /\ wOut = Idle
    /\ workingModel = Idle /\ isDirty = Idle /\ storage = Idle
    /\ returned = Idle /\ changed = Idle

\* addOperation(scenario, op)
AddOperation ==
    /\ Len(scenario.ops) < MaxOps
    /\ \E op \in OpCatalog :
          /\ scenario' = addOperation(scenario, op)
          /\ edited' = Some([op |-> op, opsBefore |-> scenario.ops])
    /\ applied' = None
    /\ UNCHANGED <<baseModel, recurVars, ledgerVars, summaryVars, debtVars, adjustVars,
                 monthlyVars, weeklyVars, modelVars>>

\* removeOperation(scenario, index)
RemoveOperation ==
    /\ \E index \in 0..MaxOps : scenario' = removeOperation(scenario, index)
    /\ applied' = None
    /\ edited' = None
    /\ UNCHANGED <<baseModel, recurVars, ledgerVars, summaryVars, debtVars, adjustVars,
                 monthlyVars, weeklyVars, modelVars>>

\* applyScenario(baseModel, scenario); applied records the call: its
\* arguments as they were before it, and what it returned
ApplyScenario ==
    /\ applied = None
    /\ LET call == applyScenario(baseModel, scenario)
       IN  /\ applied' = Some([baseBefore |-> baseModel, opsBefore |-> scenario.ops,
                               threw |-> call.threw, effective |-> call.effective])
           /\ baseModel' = call.baseAfter
           /\ scenario' = [scenario EXCEPT !.ops = call.opsAfter]
    /\ edited' = None
    /\ UNCHANGED <<recurVars, ledgerVars, summaryVars, debtVars, adjustVars,
                 monthlyVars, weeklyVars, modelVars>>

Next == AddOperation \/ RemoveOperation \/ ApplyScenario

Spec == Init /\ [][Next]_vars

\* an applyScenario call has been made and recorded
Applied == applied # None

\* C2: applyScenario leaves the base model equal to its value before the
\* call and leaves the scenario's operation list unchanged, whatever the
\* operations of the scenario are.
C2_BaseAndScenarioUnchanged ==
    Applied =>
        /\ baseModel = Val(applied).baseBefore
        /\ scenario.ops = Val(applied).opsBefore

RECURSIVE DeepVal(_, _, _)
\* the value v stands for, references followed through the operation list
DeepVal(v, ops, depth) ==
    IF depth = 0 THEN v
    ELSE IF v.t = "ref" THEN DeepVal(Val(ops[v.i].value), ops, depth - 1)
    ELSE IF v.t = "obj"
    THEN Obj([k \in DOMAIN v.f |-> DeepVal(v.f[k], ops, depth - 1)])
    ELSE v

\* an effective model by value; none when the call threw
DeepModel(effective, ops) ==
    IF effective = None THEN None
    ELSE Some([Val(effective) EXCEPT
                 !.settings = IF @ = None THEN None
                              ELSE Some(DeepVal(Val(@), ops, MaxDepth))])

\* the applied scenario is a single settings_set operation
SingleSettingsSet ==
    /\ Applied
    /\ Len(Val(applied).opsBefore) = 1
    /\ Val(applied).opsBefore[1].op = "settings_set"

RECURSIVE ReadPath(_, _)
\* the value read along the keys of path from value v, none when a key is
\* missing
ReadPath(v, path) ==
    IF path = << >> THEN Some(v)
    ELSE IF v.t = "obj" /\ Head(path) \in DOMAIN v.f
    THEN ReadPath(v.f[Head(path)], Tail(path))
    ELSE None

\* C23: applying a settings_set operation with path p and value v to any
\* base model, also one without settings or without the objects along p,
\* does not throw; reading p in the settings of the effective model gives v
\* and every other settings key is as in the base model.
C23_SettingsSetNeverThrows ==
    SingleSettingsSet =>
      LET op == Val(applied).opsBefore[1]
          base == Val(applied).baseBefore.settings
          deep == DeepModel(Val(applied).effective, scenario.ops)
      IN  /\ ~Val(applied).threw
          /\ IsSome(deep) /\ IsSome(Val(deep).settings)
          /\ ReadPath(Val(Val(deep).settings), op.path) = op.value
          /\ IsSome(base) =>
                \A k \in DOMAIN Val(base).f \ {op.path[1]} :
                    ReadPath(Val(Val(deep).settings), <<k>>) = Some(Val(base).f[k])

IdempotentOps ==
    {"rule_amount_set", "rule_disable", "rule_recurrence_set", "remove_oneoff",
     "settings_set"}

\* the applied scenario ends with the same idempotent operation twice
EndsWithRepeat(ops) ==
    /\ Len(ops) >= 2
    /\ ops[Len(ops)] = ops[Len(ops) - 1]
    /\ ops[Len(ops)].op \in IdempotentOps

\* the call that applies the operations but the last
OnceCall == applyScenario(Val(applied).baseBefore,
                          [ops |-> SubSeq(Val(applied).opsBefore, 1,
                                          Len(Val(applied).opsBefore) - 1)])

\* C3: applying one of the operations rule_amount_set, rule_disable,
\* rule_recurrence_set, remove_oneoff, settings_set twice in succession gives
\* an effective model equal to the one that applying it once gives.
C3_IdempotentOps ==
    (Applied /\ EndsWithRepeat(Val(applied).opsBefore)) =>
        DeepModel(Val(applied).effective, scenario.ops)
            = DeepModel(OnceCall.effective, OnceCall.opsAfter)

\* the repeated operation was applied and changed the model it was applied to
C3_Witness ==
    /\ Applied
    /\ EndsWithRepeat(Val(applied).opsBefore)
    /\ ~Val(applied).threw
    /\ Val(applied).effective # Some(Val(applied).baseBefore)
    /\ DeepModel(Val(applied).effective, scenario.ops)
           # DeepModel(applyScenario(Val(applied).baseBefore,
                                     [ops |-> SubSeq(Val(applied).opsBefore, 1,
                                                     Len(Val(applied).opsBefore) - 2)]).effective,
                       scenario.ops)

\* the applied scenario is n >= 1 copies of one rule_amount_delta operation
DeltaRepeated(ops) ==
    /\ Len(ops) >= 1
    /\ ops[1].op = "rule_amount_delta"
    /\ \A i \in 1..Len(ops) : ops[i] = ops[1]

\* C4: n copies of a rule_amount_delta operation with delta d leave the rule
\* of amount a with amount a + n*d, and every other rule's amount unchanged.
C4_DeltaCompounds ==
    (Applied /\ DeltaRepeated(Val(applied).opsBefore)) =>
        LET ops == Val(applied).opsBefore
            base == Val(applied).baseBefore
            eff == Val(Val(applied).effective)
        IN  /\ ~Val(applied).threw
            /\ Len(eff.rules) = Len(base.rules)
            /\ \A j \in 1..Len(base.rules) :
                  eff.rules[j].amount =
                      base.rules[j].amount
                        + (IF base.rules[j].id = ops[1].ruleId
                           THEN Len(ops) * Val(ops[1].delta) ELSE 0)

\* the delta was applied at least twice to a rule of a model with another rule
C4_Witness ==
    /\ Applied
    /\ DeltaRepeated(Val(applied).opsBefore)
    /\ Len(Val(applied).opsBefore) >= 2
    /\ Len(Val(applied).baseBefore.rules) >= 2
    /\ \E j \in 1..Len(Val(applied).baseBefore.rules) :
          Val(applied).baseBefore.rules[j].id = Val(applied).opsBefore[1].ruleId

\* the operation types addOperation replaces by (type, ruleId)
ReplaceTypes == {"rule_amount_set", "rule_amount_delta", "rule_disable"}

\* no two operations of the list have the same replaceable type and ruleId
AtMostOnePerRule(ops) ==
    \A i \in 1..Len(ops) : \A j \in (i + 1)..Len(ops) :
        ~(ops[i].op \in ReplaceTypes
            /\ ops[i].op = ops[j].op /\ ops[i].ruleId = ops[j].ruleId)

\* the operations of the list whose type addOperation never replaces
KeptTypes(ops) ==
    LET other(o) == o.op \notin ReplaceTypes
    IN  SelectSeq(ops, other)

\* what one step of the scenario's life does to the operation list
DedupStep ==
    LET old == scenario.ops
        new == scenario'.ops
    IN  /\ AtMostOnePerRule(old) => AtMostOnePerRule(new)
        /\ edited' # None =>
              LET op == Val(edited').op
              IN  /\ new[Len(new)] = op
                  /\ op.op \in ReplaceTypes =>
                        \A i \in 1..(Len(new) - 1) :
                            ~(new[i].op = op.op /\ new[i].ruleId = op.ruleId)
                  /\ KeptTypes(SubSeq(new, 1, Len(new) - 1)) = KeptTypes(old)

\* C16: addOperation and removeOperation keep at most one rule_amount_set,
\* one rule_amount_delta and one rule_disable per ruleId in the operation
\* list, the survivor being the operation added last; addOperation never
\* removes an operation of the types rule_recurrence_set, add_oneoff,
\* remove_oneoff, settings_set.
C16_LastWins == [][DedupStep]_vars

\* rule_disable(rent, false) was added to a list holding rule_disable(rent,
\* true) and an operation of a type that is never replaced
C16_Witness ==
    /\ edited # None
    /\ Val(edited).op = ruleDisable("rent", FALSE)
    /\ AtMostOnePerRule(Val(edited).opsBefore)
    /\ \E i \in 1..Len(Val(edited).opsBefore) :
          Val(edited).opsBefore[i] = ruleDisable("rent", TRUE)
    /\ KeptTypes(Val(edited).opsBefore) # << >>
    /\ Len(scenario.ops) = Len(Val(edited).opsBefore)

\* positions of the rule_amount_set and rule_amount_delta operations of a rule
AmountOps(ops, ruleId) ==
    {i \in 1..Len(ops) :
        ops[i].op \in {"rule_amount_set", "rule_amount_delta"} /\ ops[i].ruleId = ruleId}

\* the applied scenario holds one rule_amount_set and one rule_amount_delta
\* for the rule, at the positions s and d
SetAndDelta(ops, ruleId, s, d) ==
    /\ AmountOps(ops, ruleId) = {s, d}
    /\ ops[s].op = "rule_amount_set"
    /\ ops[d].op = "rule_amount_delta"

\* C17: operations are replayed in array order: with one rule_amount_set(v)
\* and one rule_amount_delta(d) for a rule in the scenario, the effective
\* amount is v + d when the set precedes the delta and v when the delta
\* precedes the set; adding one of the two by addOperation never removes the
\* other.
C17_ArrayOrder ==
    /\ (Applied /\ ~Val(applied).threw) =>
          \A j \in 1..Len(Val(applied).baseBefore.rules) :
            \A s, d \in 1..Len(Val(applied).opsBefore) :
              LET ops == Val(applied).opsBefore
                  ruleId == Val(applied).baseBefore.rules[j].id
              IN  SetAndDelta(ops, ruleId, s, d) =>
                    Val(Val(applied).effective).rules[j].amount =
                        IF s < d THEN Val(ops[s].amount) + Val(ops[d].delta)
                        ELSE Val(ops[s].amount)
    /\ edited # None =>
          LET op == Val(edited).op
              otherAmountOp(o) ==
                  /\ o.op \in {"rule_amount_set", "rule_amount_delta"}
                  /\ op.op \in {"rule_amount_set", "rule_amount_delta"}
                  /\ o.op # op.op /\ o.ruleId = op.ruleId
          IN  SelectSeq(Val(edited).opsBefore, otherAmountOp)
                = SelectSeq(SubSeq(scenario.ops, 1, Len(scenario.ops) - 1),
                            otherAmountOp)

\* a scenario with the delta before the set has been applied to a model
\* with the rule, and the set decided the amount
C17_Witness ==
    /\ Applied /\ ~Val(applied).threw
    /\ \E j \in 1..Len(Val(applied).baseBefore.rules) :
         \E s, d \in 1..Len(Val(applied).opsBefore) :
            /\ SetAndDelta(Val(applied).opsBefore,
                           Val(applied).baseBefore.rules[j].id, s, d)
            /\ d < s
            /\ Val(applied).baseBefore.rules[j].amount
                 # Val(Val(applied).effective).rules[j].amount

\* ------------------------------------------------------------ debt payoff

\* Money of the debt module is counted in cents.  A product with the monthly
\* rate APR/100/12 that is no whole number of cents is either of the two
\* neighbouring amounts.
DefaultMaxMonths == 360

\* balance * getMonthlyRate(apr)
InterestChoices(balance, apr) ==
    LET x == balance * apr
    IN  IF x % 1200 = 0 THEN {x \div 1200} ELSE {x \div 1200, (x \div 1200) + 1}

\* calculateMinPayment(principal, apr), for principals whose monthly interest
\* and 1% portion are whole cents
calculateMinPayment(principal, apr) ==
    IF principal <= 0 THEN 0
    ELSE LET monthlyInterest == (principal * apr) \div 1200
             principalPortion == principal \div 100
             calculated == monthlyInterest + principalPortion
         IN  Min(principal, Max(2500, calculated))

\* [...lumpSums].sort((a, b) => a.date.localeCompare(b.date)), a stable sort
RECURSIVE InsertLumpSum(_, _)
InsertLumpSum(sorted, ls) ==
    IF sorted = << >> THEN <<ls>>
    ELSE IF Head(sorted).date <= ls.date
         THEN <<Head(sorted)>> \o InsertLumpSum(Tail(sorted), ls)
         ELSE <<ls>> \o sorted

RECURSIVE SortLumpSums(_)
SortLumpSums(lumpSums) ==
    IF lumpSums = << >> THEN << >>
    ELSE InsertLumpSum(SortLumpSums(SubSeq(lumpSums, 1, Len(lumpSums) - 1)),
                       lumpSums[Len(lumpSums)])

\* sortedLumpSums.find(ls => ls.date.startsWith(monthStr))
RECURSIVE FindLumpSum(_, _)
FindLumpSum(sortedLumpSums, month) ==
    IF sortedLumpSums = << >> THEN None
    ELSE IF MonthOf(Head(sortedLumpSums).date) = month THEN Some(Head(sortedLumpSums))
    ELSE FindLumpSum(Tail(sortedLumpSums), month)

\* currentDate.plus({ months: 1 }): the same day of the next month, or that
\* month's last day
PlusMonth(d) ==
    LET mi == MonthOf(d) + 1
    IN  MonthStart(mi) + Min(DayOfMonth(d), DaysInMonth(mi)) - 1

\* the minimum payment projectPayoff resolves: the linked rule's amount, else
\* the calculated one
ResolveMinPayment(debt, rules) ==
    LET rule == IF IsSome(debt.minPaymentRuleId)
                THEN FindRule(rules, Val(debt.minPaymentRuleId)) ELSE None
        linked == IF IsSome(rule) THEN Val(rule).amount ELSE 0
    IN  IF linked # 0 THEN linked ELSE calculateMinPayment(debt.principal, debt.apr)

\* the locals of projectPayoff when the loop is entered
PayoffStart(debt, options, rules, today) ==
    [apr |-> debt.apr,
     principal |-> debt.principal,
     maxMonths |-> IF IsSome(options.maxMonths) THEN Val(options.maxMonths)
                   ELSE DefaultMaxMonths,
     totalMonthlyPayment |->
         ResolveMinPayment(debt, rules)
           + (IF IsSome(options.extraMonthly) THEN Val(options.extraMonthly)
              ELSE debt.extraMonthlyPayment),
     sortedLumpSums |-> SortLumpSums(IF IsSome(options.lumpSums)
                                     THEN Val(options.lumpSums) ELSE debt.lumpSums),
     balance |-> debt.principal,
     currentDate |-> IF IsSome(options.startDate) THEN Val(options.startDate) ELSE today,
     totalInterest |-> 0, totalPaid |-> 0, month |-> 0, schedule |-> << >>]

\* A mutated PayoffBody: the regular payment is not capped at the balance.
PayoffBodyUncapped(l, interest) ==
    LET accrued == l.balance + interest
        lumpSum == FindLumpSum(l.sortedLumpSums, MonthOf(l.currentDate))
        lumpSumAmount == IF IsSome(lumpSum) THEN Min(Val(lumpSum).amount, accrued) ELSE 0
        payment == l.totalMonthlyPayment
        balance == Max(0, accrued - lumpSumAmount - payment)
        row == [month |-> l.month + 1, date |-> l.currentDate, payment |-> payment,
                lumpSum |-> lumpSumAmount, interest |-> interest,
                principal |-> payment - interest + lumpSumAmount,
                balance |-> balance,
                totalPaid |-> l.totalPaid + lumpSumAmount + payment,
                totalInterest |-> l.totalInterest + interest]
    IN  [l EXCEPT !.month = @ + 1, !.balance = balance,
                  !.totalInterest = @ + interest,
                  !.totalPaid = @ + lumpSumAmount + payment,
                  !.schedule = Append(@, row),
                  !.currentDate = PlusMonth(@)]

\* A mutated PayoffBody: a lump sum lowers the balance but is not added to
\* totalPaid.
PayoffBodyLumpUnpaid(l, interest) ==
    LET accrued == l.balance + interest
        lumpSum == FindLumpSum(l.sortedLumpSums, MonthOf(l.currentDate))
        lumpSumAmount == IF IsSome(lumpSum) THEN Min(Val(lumpSum).amount, accrued) ELSE 0
        payment == Min(l.totalMonthlyPayment, accrued - lumpSumAmount)
        balance == Max(0, accrued - lumpSumAmount - payment)
        row == [month |-> l.month + 1, date |-> l.currentDate, payment |-> payment,
                lumpSum |-> lumpSumAmount, interest |-> interest,
                principal |-> payment - interest + lumpSumAmount,
                balance |-> balance,
                totalPaid |-> l.totalPaid + payment,
                totalInterest |-> l.totalInterest + interest]
    IN  [l EXCEPT !.month = @ + 1, !.balance = balance,
                  !.totalInterest = @ + interest,
                  !.totalPaid = @ + payment,
                  !.schedule = Append(@, row),
                  !.currentDate = PlusMonth(@)]

\* one iteration of the loop of projectPayoff
PayoffBody(l, interest) ==
    LET accrued == l.balance + interest
        lumpSum == FindLumpSum(l.sortedLumpSums, MonthOf(l.currentDate))
        lumpSumAmount == IF IsSome(lumpSum) THEN Min(Val(lumpSum).amount, accrued) ELSE 0
        payment == Min(l.totalMonthlyPayment, accrued - lumpSumAmount)
        balance == Max(0, accrued - lumpSumAmount - payment)
        row == [month |-> l.month + 1, date |-> l.currentDate, payment |-> payment,
                lumpSum |-> lumpSumAmount, interest |-> interest,
                principal |-> payment - interest + lumpSumAmount,
                balance |-> balance,
                totalPaid |-> l.totalPaid + lumpSumAmount + payment,
                totalInterest |-> l.totalInterest + interest]
    IN  [l EXCEPT !.month = @ + 1, !.balance = balance,
                  !.totalInterest = @ + interest,
                  !.totalPaid = @ + lumpSumAmount + payment,
                  !.schedule = Append(@, row),
                  !.currentDate = PlusMonth(@)]

\* the object projectPayoff returns after the loop
PayoffResult(l) ==
    LET paid == l.balance <= 0
        lastEntry == IF l.schedule = << >> THEN None
                     ELSE Some(l.schedule[Len(l.schedule)])
    IN  [isPaidOff |-> paid,
         payoffDate |-> IF paid /\ IsSome(lastEntry) THEN Some(Val(lastEntry).date)
                        ELSE None,
         payoffMonths |-> IF paid THEN Some(l.month) ELSE None,
         totalInterest |-> l.totalInterest, totalPaid |-> l.totalPaid,
         originalPrincipal |-> l.principal, finalBalance |-> l.balance,
         monthlyPayment |-> l.totalMonthlyPayment, schedule |-> l.schedule,
         message |-> IF paid THEN "Paid off" ELSE "Not paid off"]

\* the object projectPayoff returns when totalMonthlyPayment <= 0
NoPaymentsResult ==
    [isPaidOff |-> FALSE, message |-> "No payments configured", schedule |-> << >>]

\* ------------------------------------------ specification: projectPayoff

\* the rules of the current model a debt can link to
DebtRules ==
    <<[id |-> "loan", amount |-> 20000], [id |-> "small", amount |-> 1000]>>

DebtLumpSums ==
    {<< >>,
     <<[date |-> 45, amount |-> 30000], [date |-> 35, amount |-> 100000]>>}

Debts ==
    [principal : {0, 60000, 120000}, apr : {0, 24, 60},
     minPaymentRuleId : {None, Some("loan"), Some("small"), Some("ghost")},
     extraMonthlyPayment : {0, 5000},
     lumpSums : DebtLumpSums]

PayoffOptions ==
    [startDate : {None, Some(30)},
     maxMonths : {None, Some(2), Some(MaxPayoffMonths)},
     extraMonthly : {None, Some(0)},
     lumpSums : {None}]

\* The default of 360 months is drawn for the debts that the linked payment
\* of 200 a month pays off.
InitDebt ==
    /\ dIn \in {[debt |-> d, options |-> o, rules |-> DebtRules] :
                   d \in Debts, o \in PayoffOptions}
    /\ IsSome(dIn.options.maxMonths) \/ dIn.debt.minPaymentRuleId = Some("loan")
    /\ dLoop = None
    /\ dOut = None
    /\ aIn = Idle /\ aOut = Idle
    /\ baseModel = Idle /\ scenario = Idle /\ applied = Idle /\ edited = Idle
    /\ mOut = Idle /\ wIn = Idle /\ wLoop = Idle /\ wOut = Idle
    /\ workingModel = Idle /\ isDirty = Idle /\ storage = Idle
    /\ returned = Idle /\ changed = Idle
    /\ rIn = Idle /\ rOut = Idle /\ lIn = Idle /\ lOut = Idle /\ tOut = Idle
    /\ sIn = Idle /\ sOut = Idle

\* projectPayoff up to the loop: the early return when no payment is
\* configured, else the initialisation of the locals
PayoffCall ==
    /\ dLoop = None /\ dOut = None
    /\ LET start == PayoffStart(dIn.debt, dIn.options, dIn.rules, Today)
       IN  IF start.totalMonthlyPayment <= 0
           THEN dOut' = Some(NoPaymentsResult) /\ dLoop' = dLoop
           ELSE dLoop' = Some(start) /\ dOut' = dOut
    /\ UNCHANGED <<dIn, overlayVars, recurVars, ledgerVars, summaryVars, adjustVars,
                 monthlyVars, weeklyVars, modelVars>>

\* while (balance > 0 && month < maxMonths)
PayoffContinues == Val(dLoop).balance > 0 /\ Val(dLoop).month < Val(dLoop).maxMonths

\* one iteration of the loop
PayoffIterate ==
    /\ dLoop # None /\ dOut = None
    /\ PayoffContinues
    /\ \E interest \in InterestChoices(Val(dLoop).balance, Val(dLoop).apr) :
          dLoop' = Some(PayoffBody(Val(dLoop), interest))
    /\ UNCHANGED <<dIn, dOut, overlayVars, recurVars, ledgerVars, summaryVars, adjustVars,
                 monthlyVars, weeklyVars, modelVars>>

\* the loop has ended: build the result
PayoffReturn ==
    /\ dLoop # None /\ dOut = None
    /\ ~PayoffContinues
    /\ dOut' = Some(PayoffResult(Val(dLoop)))
    /\ UNCHANGED <<dIn, dLoop, overlayVars, recurVars, ledgerVars, summaryVars, adjustVars,
                 monthlyVars, weeklyVars, modelVars>>

NextDebt == PayoffCall \/ PayoffIterate \/ PayoffReturn

SpecDebt == InitDebt /\ [][NextDebt]_vars

\* the lump sums in force for the call
CallLumpSums ==
    IF IsSome(dIn.options.lumpSums) THEN Val(dIn.options.lumpSums)
    ELSE dIn.debt.lumpSums

\* the amount of the earliest lump sum dated in the calendar month, 0 if none
ScheduledLumpSum(month) ==
    LET inMonth == {i \in 1..Len(CallLumpSums) : MonthOf(CallLumpSums[i].date) = month}
    IN  IF inMonth = {} THEN 0
        ELSE CallLumpSums[CHOOSE i \in inMonth :
                             \A j \in inMonth :
                                 CallLumpSums[i].date <= CallLumpSums[j].date].amount

\* row k of the schedule follows the monthly step from the balance before it
RowFollowsStep(l, k) ==
    LET row == l.schedule[k]
        before == IF k = 1 THEN l.principal ELSE l.schedule[k - 1].balance
        interestBefore == IF k = 1 THEN 0 ELSE l.schedule[k - 1].totalInterest
        accrued == before + row.interest
    IN  /\ row.month = k
        /\ 1200 * row.interest - before * l.apr < 1200
        /\ before * l.apr - 1200 * row.interest < 1200
        /\ row.totalInterest = interestBefore + row.interest
        /\ row.lumpSum = Min(ScheduledLumpSum(MonthOf(row.date)), accrued)
        /\ row.payment = Min(l.totalMonthlyPayment, accrued - row.lumpSum)
        /\ row.balance = accrued - row.lumpSum - row.payment
        /\ row.balance >= 0

\* the debt of 1200 at 24% APR paid 200 a month by its linked rule, with no
\* extra payment and no lump sums, projected over seven months or more
PayoffExample ==
    /\ dIn.debt.principal = 120000 /\ dIn.debt.apr = 24
    /\ dIn.debt.minPaymentRuleId = Some("loan")
    /\ dIn.debt.extraMonthlyPayment = 0
    /\ CallLumpSums = << >>
    /\ dIn.options.maxMonths # Some(2)

\* C11: every schedule row follows the monthly step (interest at APR/100/12
\* added to the balance and to totalInterest, then the month's lump sum capped
\* at the balance, then the regular payment capped at the balance, balance
\* never negative); the debt 1200 at 24% paid 200 a month has 7 rows, is paid
\* off in month 7, and its 7th payment is less than 200.
C11_MonthlyStep ==
    /\ dLoop # None =>
          \A k \in 1..Len(Val(dLoop).schedule) : RowFollowsStep(Val(dLoop), k)
    /\ (dOut # None /\ PayoffExample) =>
          /\ Len(Val(dOut).schedule) = 7
          /\ Val(dOut).isPaidOff
          /\ Val(dOut).payoffMonths = Some(7)
          /\ Val(dOut).schedule[7].payment < 20000
          /\ \A k \in 1..6 : Val(dOut).schedule[k].payment = 20000

\* the example has been projected to its end
C11_Witness ==
    /\ dOut # None
    /\ PayoffExample
    /\ Len(Val(dOut).schedule) = 7
    /\ Val(dOut).schedule[7].balance = 0

\* the balance a projection ends with: the loop's, or the untouched principal
\* when the call returned before the loop
FinalBalance == IF dLoop # None THEN Val(dLoop).balance ELSE dIn.debt.principal

\* the maxMonths in force for the call
CallMaxMonths ==
    IF IsSome(dIn.options.maxMonths) THEN Val(dIn.options.maxMonths)
    ELSE DefaultMaxMonths

\* C12: projectPayoff makes at most maxMonths iterations and returns either
\* isPaidOff = true with payoffMonths the number of rows and payoffDate the
\* date of the last row, or isPaidOff = false with no payoff date after
\* maxMonths rows; isPaidOff is true exactly when the final balance is 0.
C12_PayoffOutcome ==
    /\ dLoop # None =>
          /\ Val(dLoop).month <= Val(dLoop).maxMonths
          /\ Len(Val(dLoop).schedule) = Val(dLoop).month
    /\ dOut # None =>
          LET r == Val(dOut)
              rows == Len(r.schedule)
          IN  /\ r.isPaidOff <=> FinalBalance = 0
              /\ r.isPaidOff =>
                    /\ r.payoffMonths = Some(rows)
                    /\ rows > 0 => r.payoffDate = Some(r.schedule[rows].date)
              /\ ~r.isPaidOff => rows = CallMaxMonths

\* C29: in every schedule balance >= 0 in each row and totalPaid and
\* totalInterest never decrease from row to row; when the result has
\* isPaidOff = true, totalPaid = originalPrincipal + totalInterest and
\* finalBalance = 0.
C29_PayoffAccounting ==
    /\ dLoop # None =>
          LET schedule == Val(dLoop).schedule
          IN  /\ \A k \in 1..Len(schedule) : schedule[k].balance >= 0
              /\ \A k \in 1..(Len(schedule) - 1) :
                    /\ schedule[k].totalPaid <= schedule[k + 1].totalPaid
                    /\ schedule[k].totalInterest <= schedule[k + 1].totalInterest
    /\ (dOut # None /\ Val(dOut).isPaidOff) =>
          /\ Val(dOut).totalPaid = Val(dOut).originalPrincipal + Val(dOut).totalInterest
          /\ Val(dOut).finalBalance = 0

\* witness of C29: a debt paid off in several months with interest, a lump
\* sum and regular payments
C29_Witness ==
    /\ dOut # None /\ Val(dOut).isPaidOff
    /\ Len(Val(dOut).schedule) >= 3
    /\ Val(dOut).totalInterest > 0
    /\ \E k \in 1..Len(Val(dOut).schedule) :
          Val(dOut).schedule[k].lumpSum > 0 /\ Val(dOut).schedule[k].payment > 0

\* --------------------------------------- specification: adjustTransaction

AdjustModes == {"", "none", "next_business_day", "prev_business_day"}

\* model settings as adjustTransaction reads them
AdjustSettings ==
    {None, Some([forecastHorizonDays |-> 0, businessDays |-> None])}
    \cup {Some([forecastHorizonDays |-> 0,
                businessDays |-> Some([weekendsAreNonBusinessDays |-> w])]) :
             w \in {None, Some(TRUE), Some(FALSE)}}

\* the occurrences of a rule on the days 0..MaxStart, with each adjustment
AdjustTransactions ==
    {[Occurrence(OverlayRent, d) EXCEPT !.businessDayAdjustment = mode] :
        d \in 0..MaxStart, mode \in AdjustModes}

InitAdjust ==
    /\ aIn \in [transaction : AdjustTransactions, settings : AdjustSettings]
    /\ aOut = None
    /\ baseModel = Idle /\ scenario = Idle /\ applied = Idle /\ edited = Idle
    /\ mOut = Idle /\ wIn = Idle /\ wLoop = Idle /\ wOut = Idle
    /\ workingModel = Idle /\ isDirty = Idle /\ storage = Idle
    /\ returned = Idle /\ changed = Idle
    /\ rIn = Idle /\ rOut = Idle /\ lIn = Idle /\ lOut = Idle /\ tOut = Idle
    /\ sIn = Idle /\ sOut = Idle
    /\ dIn = Idle /\ dLoop = Idle /\ dOut = Idle

\* one call of adjustTransaction on the drawn arguments
CallAdjustTransaction ==
    /\ aOut = None
    /\ aOut' = Some(adjustTransaction(aIn.transaction, aIn.settings))
    /\ UNCHANGED <<aIn, overlayVars, recurVars, ledgerVars, summaryVars, debtVars,
                 monthlyVars, weeklyVars, modelVars>>

NextAdjust == CallAdjustTransaction

SpecAdjust == InitAdjust /\ [][NextAdjust]_vars

\* the adjustment mode of the call; an absent one counts as none
AdjustMode ==
    IF aIn.transaction.businessDayAdjustment = "" THEN "none"
    ELSE aIn.transaction.businessDayAdjustment

\* day d is a business day under the policy of the call: weekends are
\* non-business days unless the policy says weekendsAreNonBusinessDays = false
BusinessDay(d) ==
    \/ d % 7 \notin {5, 6}
    \/ /\ IsSome(aIn.settings)
       /\ IsSome(Val(aIn.settings).businessDays)
       /\ Val(Val(aIn.settings).businessDays).weekendsAreNonBusinessDays = Some(FALSE)

\* C15: adjustTransaction leaves the date unchanged when the mode is none or
\* the date is a business day; next_business_day gives the first business day
\* on or after the date, prev_business_day the last on or before it, so with
\* a mode other than none the result is a business day; originalDate is the
\* date before adjustment and wasAdjusted is true exactly when date differs.
C15_AdjustTransaction ==
    IsSome(aOut) =>
      LET before == aIn.transaction.date
          r == Val(aOut)
      IN  /\ r.originalDate = Some(before)
          /\ r.wasAdjusted = Some(r.date # before)
          /\ (AdjustMode = "none" \/ BusinessDay(before)) => r.date = before
          /\ AdjustMode = "next_business_day" =>
                /\ r.date >= before
                /\ \A d \in before..(r.date - 1) : ~BusinessDay(d)
          /\ AdjustMode = "prev_business_day" =>
                /\ r.date <= before
                /\ \A d \in (r.date + 1)..before : ~BusinessDay(d)
          /\ AdjustMode # "none" => BusinessDay(r.date)

\* a Saturday moved back to Friday by prev_business_day
C15_Witness ==
    /\ IsSome(aOut)
    /\ AdjustMode = "prev_business_day"
    /\ aIn.transaction.date % 7 = 5
    /\ Val(aOut).date = aIn.transaction.date - 1
    /\ Val(aOut).wasAdjusted = Some(TRUE)

\* ------------------------------------------- specification: working model

\* createEmptyModel(): one checking account; settings stands for the
\* settings object (the forecast horizon)
createEmptyModel ==
    [accounts |-> <<[id |-> "checking", type |-> "checking"]>>, settings |-> 180]

\* createAccount(data): data.id || generateId('acc'), data.type || 'checking'
createAccount(data, generated) ==
    [id |-> IF data.id = "" THEN generated ELSE data.id,
     type |-> IF data.type = "" THEN "checking" ELSE data.type]

\* A mutated load: the flag is left as it is.
loadKeepsFlag ==
    [workingModel |-> IF IsSome(storage) THEN storage ELSE Some(createEmptyModel),
     isDirty |-> isDirty]

\* load(): the stored model, else an empty model; the flag is cleared
load ==
    [workingModel |-> IF IsSome(storage) THEN storage ELSE Some(createEmptyModel),
     isDirty |-> FALSE]

\* get(): loads when there is no working model
get ==
    IF workingModel = None THEN load
    ELSE [workingModel |-> workingModel, isDirty |-> isDirty]

\* the ghost flag after get(): an implied load clears it
ChangedAfterGet == IF workingModel = None THEN FALSE ELSE changed

\* accounts.filter(a => a.type === 'checking').length
CheckingCount(accounts) ==
    Cardinality({i \in 1..Len(accounts) : accounts[i].type = "checking"})

\* the sequence without its element i (splice(index, 1))
Splice(q, i) == SubSeq(q, 1, i - 1) \o SubSeq(q, i + 1, Len(q))

AccountIds == {"checking", "acc1", "acc2"}
AccountTypes == {"checking", "savings"}

\* the data of the account form: no id, a type or none
AccountData == [id : {""}, type : {""} \cup AccountTypes]

\* Object.assign(account, updates): the type when updates carry one
AccountUpdates == [type : {""} \cup AccountTypes]

\* models with exactly one checking account, as stored or passed to replace
OneCheckingModels ==
    {createEmptyModel,
     [accounts |-> <<[id |-> "acc1", type |-> "savings"],
                     [id |-> "checking", type |-> "checking"]>>,
      settings |-> 90]}

\* the module is loaded: no working model, the flag is false
InitModel ==
    /\ workingModel = None
    /\ isDirty = FALSE
    /\ storage \in {None} \cup {Some(m) : m \in OneCheckingModels}
    /\ returned = None
    /\ changed = FALSE
    /\ baseModel = Idle /\ scenario = Idle /\ applied = Idle /\ edited = Idle
    /\ rIn = Idle /\ rOut = Idle
    /\ lIn = Idle /\ lOut = Idle /\ tOut = Idle /\ sIn = Idle /\ sOut = Idle
    /\ dIn = Idle /\ dLoop = Idle /\ dOut = Idle
    /\ aIn = Idle /\ aOut = Idle /\ mOut = Idle
    /\ wIn = Idle /\ wLoop = Idle /\ wOut = Idle

OtherComponents ==
    <<overlayVars, recurVars, ledgerVars, summaryVars, debtVars, adjustVars,
      monthlyVars, weeklyVars>>

\* load() and discard(), which returns load()
Load ==
    /\ workingModel' = load.workingModel
    /\ isDirty' = load.isDirty
    /\ changed' = FALSE
    /\ \E call \in {"load", "discard"} :
          returned' = Some([call |-> call, arg |-> "", value |-> "model"])
    /\ UNCHANGED <<storage, OtherComponents>>

\* save(): stored is the result of saveBaseModel, false when the storage
\* refuses the write
Save ==
    \E stored \in BOOLEAN :
      /\ IF workingModel = None \/ ~stored
         THEN /\ returned' = Some([call |-> "save", arg |-> "", value |-> "false"])
              /\ UNCHANGED <<workingModel, isDirty, storage, changed>>
         ELSE /\ storage' = workingModel
              /\ isDirty' = FALSE
              /\ changed' = FALSE
              /\ returned' = Some([call |-> "save", arg |-> "", value |-> "true"])
              /\ UNCHANGED workingModel
      /\ UNCHANGED OtherComponents

\* addAccount(data)
AddAccount ==
    /\ Len(Val(get.workingModel).accounts) < MaxAccounts
    /\ \E data \in AccountData, generated \in {"acc1"} :
          LET account == createAccount(data, generated)
          IN  /\ workingModel' =
                    Some([Val(get.workingModel) EXCEPT !.accounts = Append(@, account)])
              /\ returned' = Some([call |-> "addAccount", arg |-> account.id,
                                    value |-> "account"])
    /\ isDirty' = TRUE
    /\ changed' = TRUE
    /\ UNCHANGED <<storage, OtherComponents>>

\* updateAccount(id, updates)
UpdateAccount ==
    /\ \E id \in AccountIds, updates \in AccountUpdates :
          LET model == Val(get.workingModel)
              index == RuleIndexFrom(model.accounts, id, 1)
          IN  IF index = 0
              THEN /\ workingModel' = get.workingModel
                   /\ isDirty' = get.isDirty
                   /\ changed' = ChangedAfterGet
                   /\ returned' = Some([call |-> "updateAccount", arg |-> id,
                                         value |-> "null"])
              ELSE /\ workingModel' =
                         Some([model EXCEPT !.accounts[index].type =
                                 IF updates.type = "" THEN @ ELSE updates.type])
                   /\ isDirty' = TRUE
                   /\ changed' = TRUE
                   /\ returned' = Some([call |-> "updateAccount", arg |-> id,
                                         value |-> "account"])
    /\ UNCHANGED <<storage, OtherComponents>>

\* deleteAccount(id)
DeleteAccount ==
    /\ \E id \in AccountIds :
          LET model == Val(get.workingModel)
              index == RuleIndexFrom(model.accounts, id, 1)
              refused == \/ index = 0
                         \/ /\ model.accounts[index].type = "checking"
                            /\ CheckingCount(model.accounts) <= 1
          IN  IF refused
              THEN /\ workingModel' = get.workingModel
                   /\ isDirty' = get.isDirty
                   /\ changed' = ChangedAfterGet
                   /\ returned' = Some([call |-> "deleteAccount", arg |-> id,
                                         value |-> "false"])
              ELSE /\ workingModel' =
                         Some([model EXCEPT !.accounts = Splice(@, index)])
                   /\ isDirty' = TRUE
                   /\ changed' = TRUE
                   /\ returned' = Some([call |-> "deleteAccount", arg |-> id,
                                         value |-> "true"])
    /\ UNCHANGED <<storage, OtherComponents>>

\* updateSettings(updates)
UpdateSettings ==
    /\ \E horizon \in {90, 180} :
          workingModel' = Some([Val(get.workingModel) EXCEPT !.settings = horizon])
    /\ isDirty' = TRUE
    /\ changed' = TRUE
    /\ returned' = Some([call |-> "updateSettings", arg |-> "", value |-> "settings"])
    /\ UNCHANGED <<storage, OtherComponents>>

\* replace(newModel)
Replace ==
    /\ \E newModel \in OneCheckingModels : workingModel' = Some(newModel)
    /\ isDirty' = TRUE
    /\ changed' = TRUE
    /\ returned' = Some([call |-> "replace", arg |-> "", value |-> "model"])
    /\ UNCHANGED <<storage, OtherComponents>>

NextModel ==
    \/ Load \/ Save \/ AddAccount \/ UpdateAccount \/ DeleteAccount
    \/ UpdateSettings \/ Replace

SpecModel == InitModel /\ [][NextModel]_vars

\* the step is a call deleteAccount(id) for the only checking account
DeletesOnlyChecking ==
    /\ IsSome(returned') /\ Val(returned').call = "deleteAccount"
    /\ LET accounts == Val(get.workingModel).accounts
           index == RuleIndexFrom(accounts, Val(returned').arg, 1)
       IN  /\ index # 0
           /\ accounts[index].type = "checking"
           /\ CheckingCount(accounts) = 1

\* C24: from a model with exactly one checking account, after every
\* addAccount, updateAccount and deleteAccount the working model has exactly
\* one account of type checking; deleteAccount for the only checking account
\* returns false and changes nothing.
C24_OneChecking ==
    [][/\ IsSome(workingModel') =>
             CheckingCount(Val(workingModel').accounts) = 1
       /\ DeletesOnlyChecking =>
             /\ Val(returned').value = "false"
             /\ workingModel' = get.workingModel
             /\ isDirty' = get.isDirty]_vars

\* C30: hasUnsavedChanges() is true exactly when a successful add, update,
\* delete, setting change or replace has happened since the last load,
\* discard or successful save; a failed save leaves the flag as it is and
\* an update or delete without target leaves it unchanged.
C30_DirtyFlag == isDirty = changed

\* witness of C30: a save that failed after a change leaves the flag true
C30_Witness ==
    /\ IsSome(returned)
    /\ Val(returned).call = "save" /\ Val(returned).value = "false"
    /\ IsSome(workingModel) /\ Some(Val(workingModel)) # storage
    /\ isDirty = TRUE

====
